---- MODULE Spec2Model ----
(***************************************************************************)
(* A model of pathfinder's x86 SIMD layer (simd/src/x86.rs): the four      *)
(* 128-bit vector types F32x4, I32x4, U32x4 and U8x16 and their            *)
(* operations.                                                             *)
(*                                                                         *)
(* A register (__m128 / __m128i) is modelled as its 16 bytes in memory     *)
(* order (little endian): lane i of a 32-bit type is bytes 4i .. 4i+3,     *)
(* least significant byte first.  A scalar f32 / i32 / u32 is its 4 bytes, *)
(* least significant first.  Every intrinsic is an operator on these       *)
(* bytes, so that reinterpreting casts are free and every reordering is a  *)
(* movement of bytes.                                                      *)
(*                                                                         *)
(* The operations are pure; the state machine is a caller holding operand  *)
(* registers a, b, c, d and applying one operation per step, leaving the   *)
(* result in r (a register), flag (a bool) or val (a scalar).              *)
(***************************************************************************)
EXTENDS Integers, Sequences, FiniteSets

VARIABLES a, b, c, d,   \* the caller's operand registers
          r,            \* the register returned by the last operation
          flag,         \* the bool returned by the last operation
          op,           \* the name of the last operation ("init" before any)
          prev,         \* the name of the operation before it
          arg,          \* its immediate argument (the accessor's number), or 0
          orig,         \* <<a, b, c, d>> as constructed
          steps,        \* how many in-place operations have run
          val           \* the scalar returned (or stored) by the last operation

vars == <<a, b, c, d, r, flag, op, prev, arg, orig, steps, val>>

-----------------------------------------------------------------------------
(* Bytes, words and registers *)

\* the lane indices of a 4-lane vector
Lanes == 0..3

Pow2(n) == 2^n

\* bit k of byte x
Bit(x, k) == (x \div Pow2(k)) % 2

\* x & y, x ^ y on bytes
And8(x, y) ==
    Bit(x, 0) * Bit(y, 0) + 2 * Bit(x, 1) * Bit(y, 1)
    + 4 * Bit(x, 2) * Bit(y, 2) + 8 * Bit(x, 3) * Bit(y, 3)
    + 16 * Bit(x, 4) * Bit(y, 4) + 32 * Bit(x, 5) * Bit(y, 5)
    + 64 * Bit(x, 6) * Bit(y, 6) + 128 * Bit(x, 7) * Bit(y, 7)

Xor8(x, y) ==
    ((Bit(x, 0) + Bit(y, 0)) % 2) + 2 * ((Bit(x, 1) + Bit(y, 1)) % 2)
    + 4 * ((Bit(x, 2) + Bit(y, 2)) % 2) + 8 * ((Bit(x, 3) + Bit(y, 3)) % 2)
    + 16 * ((Bit(x, 4) + Bit(y, 4)) % 2) + 32 * ((Bit(x, 5) + Bit(y, 5)) % 2)
    + 64 * ((Bit(x, 6) + Bit(y, 6)) % 2) + 128 * ((Bit(x, 7) + Bit(y, 7)) % 2)

\* the scalar at lane i of a register viewed as [f32; 4] / [i32; 4] / [u32; 4]
LaneOf(v, i) == <<v[4 * i], v[4 * i + 1], v[4 * i + 2], v[4 * i + 3]>>

\* the register holding the four scalars of the array [s0, s1, s2, s3]
FromLanes(s0, s1, s2, s3) ==
    LET arr == <<s0, s1, s2, s3>>
    IN [j \in 0..15 |-> arr[(j \div 4) + 1][(j % 4) + 1]]

\* the scalar with every bit clear
ZeroLane == <<0, 0, 0, 0>>

ZeroReg == [j \in 0..15 |-> 0]

-----------------------------------------------------------------------------
(* F32x4 swizzles *)

\* a faulty variant: the selectors are read from the top of imm, bits 6-7
\* choosing lane 0
mm_shuffle_ps_selectors_reversed(x, y, imm) ==
    [j \in 0..15 |->
        LET lane == j \div 4
            sel  == (imm \div Pow2(2 * (3 - lane))) % 4
            from == IF lane < 2 THEN x ELSE y
        IN from[4 * sel + (j % 4)]]

\* _mm_shuffle_ps(x, y, imm): lanes 0 and 1 of the result are the lanes of x
\* selected by bits 0-1 and 2-3 of imm, lanes 2 and 3 the lanes of y selected
\* by bits 4-5 and 6-7.
mm_shuffle_ps(x, y, imm) ==
    [j \in 0..15 |->
        LET lane == j \div 4
            sel  == (imm \div Pow2(2 * lane)) % 4
            from == IF lane < 2 THEN x ELSE y
        IN from[4 * sel + (j % 4)]]

\* The 256 swizzle accessors of F32x4, in source order: the accessor's name,
\* letter by letter, and the immediate its body passes to _mm_shuffle_ps.
F32x4Swizzles ==
    <<
       <<<<"x","x","x","x">>, 0>>, <<<<"y","x","x","x">>, 1>>,
       <<<<"z","x","x","x">>, 2>>, <<<<"w","x","x","x">>, 3>>,
       <<<<"x","y","x","x">>, 4>>, <<<<"y","y","x","x">>, 5>>,
       <<<<"z","y","x","x">>, 6>>, <<<<"w","y","x","x">>, 7>>,
       <<<<"x","z","x","x">>, 8>>, <<<<"y","z","x","x">>, 9>>,
       <<<<"z","z","x","x">>, 10>>, <<<<"w","z","x","x">>, 11>>,
       <<<<"x","w","x","x">>, 12>>, <<<<"y","w","x","x">>, 13>>,
       <<<<"z","w","x","x">>, 14>>, <<<<"w","w","x","x">>, 15>>,
       <<<<"x","x","y","x">>, 16>>, <<<<"y","x","y","x">>, 17>>,
       <<<<"z","x","y","x">>, 18>>, <<<<"w","x","y","x">>, 19>>,
       <<<<"x","y","y","x">>, 20>>, <<<<"y","y","y","x">>, 21>>,
       <<<<"z","y","y","x">>, 22>>, <<<<"w","y","y","x">>, 23>>,
       <<<<"x","z","y","x">>, 24>>, <<<<"y","z","y","x">>, 25>>,
       <<<<"z","z","y","x">>, 26>>, <<<<"w","z","y","x">>, 27>>,
       <<<<"x","w","y","x">>, 28>>, <<<<"y","w","y","x">>, 29>>,
       <<<<"z","w","y","x">>, 30>>, <<<<"w","w","y","x">>, 31>>,
       <<<<"x","x","z","x">>, 32>>, <<<<"y","x","z","x">>, 33>>,
       <<<<"z","x","z","x">>, 34>>, <<<<"w","x","z","x">>, 35>>,
       <<<<"x","y","z","x">>, 36>>, <<<<"y","y","z","x">>, 37>>,
       <<<<"z","y","z","x">>, 38>>, <<<<"w","y","z","x">>, 39>>,
       <<<<"x","z","z","x">>, 40>>, <<<<"y","z","z","x">>, 41>>,
       <<<<"z","z","z","x">>, 42>>, <<<<"w","z","z","x">>, 43>>,
       <<<<"x","w","z","x">>, 44>>, <<<<"y","w","z","x">>, 45>>,
       <<<<"z","w","z","x">>, 46>>, <<<<"w","w","z","x">>, 47>>,
       <<<<"x","x","w","x">>, 48>>, <<<<"y","x","w","x">>, 49>>,
       <<<<"z","x","w","x">>, 50>>, <<<<"w","x","w","x">>, 51>>,
       <<<<"x","y","w","x">>, 52>>, <<<<"y","y","w","x">>, 53>>,
       <<<<"z","y","w","x">>, 54>>, <<<<"w","y","w","x">>, 55>>,
       <<<<"x","z","w","x">>, 56>>, <<<<"y","z","w","x">>, 57>>,
       <<<<"z","z","w","x">>, 58>>, <<<<"w","z","w","x">>, 59>>,
       <<<<"x","w","w","x">>, 60>>, <<<<"y","w","w","x">>, 61>>,
       <<<<"z","w","w","x">>, 62>>, <<<<"w","w","w","x">>, 63>>,
       <<<<"x","x","x","y">>, 64>>, <<<<"y","x","x","y">>, 65>>,
       <<<<"z","x","x","y">>, 66>>, <<<<"w","x","x","y">>, 67>>,
       <<<<"x","y","x","y">>, 68>>, <<<<"y","y","x","y">>, 69>>,
       <<<<"z","y","x","y">>, 70>>, <<<<"w","y","x","y">>, 71>>,
       <<<<"x","z","x","y">>, 72>>, <<<<"y","z","x","y">>, 73>>,
       <<<<"z","z","x","y">>, 74>>, <<<<"w","z","x","y">>, 75>>,
       <<<<"x","w","x","y">>, 76>>, <<<<"y","w","x","y">>, 77>>,
       <<<<"z","w","x","y">>, 78>>, <<<<"w","w","x","y">>, 79>>,
       <<<<"x","x","y","y">>, 80>>, <<<<"y","x","y","y">>, 81>>,
       <<<<"z","x","y","y">>, 82>>, <<<<"w","x","y","y">>, 83>>,
       <<<<"x","y","y","y">>, 84>>, <<<<"y","y","y","y">>, 85>>,
       <<<<"z","y","y","y">>, 86>>, <<<<"w","y","y","y">>, 87>>,
       <<<<"x","z","y","y">>, 88>>, <<<<"y","z","y","y">>, 89>>,
       <<<<"z","z","y","y">>, 90>>, <<<<"w","z","y","y">>, 91>>,
       <<<<"x","w","y","y">>, 92>>, <<<<"y","w","y","y">>, 93>>,
       <<<<"z","w","y","y">>, 94>>, <<<<"w","w","y","y">>, 95>>,
       <<<<"x","x","z","y">>, 96>>, <<<<"y","x","z","y">>, 97>>,
       <<<<"z","x","z","y">>, 98>>, <<<<"w","x","z","y">>, 99>>,
       <<<<"x","y","z","y">>, 100>>, <<<<"y","y","z","y">>, 101>>,
       <<<<"z","y","z","y">>, 102>>, <<<<"w","y","z","y">>, 103>>,
       <<<<"x","z","z","y">>, 104>>, <<<<"y","z","z","y">>, 105>>,
       <<<<"z","z","z","y">>, 106>>, <<<<"w","z","z","y">>, 107>>,
       <<<<"x","w","z","y">>, 108>>, <<<<"y","w","z","y">>, 109>>,
       <<<<"z","w","z","y">>, 110>>, <<<<"w","w","z","y">>, 111>>,
       <<<<"x","x","w","y">>, 112>>, <<<<"y","x","w","y">>, 113>>,
       <<<<"z","x","w","y">>, 114>>, <<<<"w","x","w","y">>, 115>>,
       <<<<"x","y","w","y">>, 116>>, <<<<"y","y","w","y">>, 117>>,
       <<<<"z","y","w","y">>, 118>>, <<<<"w","y","w","y">>, 119>>,
       <<<<"x","z","w","y">>, 120>>, <<<<"y","z","w","y">>, 121>>,
       <<<<"z","z","w","y">>, 122>>, <<<<"w","z","w","y">>, 123>>,
       <<<<"x","w","w","y">>, 124>>, <<<<"y","w","w","y">>, 125>>,
       <<<<"z","w","w","y">>, 126>>, <<<<"w","w","w","y">>, 127>>,
       <<<<"x","x","x","z">>, 128>>, <<<<"y","x","x","z">>, 129>>,
       <<<<"z","x","x","z">>, 130>>, <<<<"w","x","x","z">>, 131>>,
       <<<<"x","y","x","z">>, 132>>, <<<<"y","y","x","z">>, 133>>,
       <<<<"z","y","x","z">>, 134>>, <<<<"w","y","x","z">>, 135>>,
       <<<<"x","z","x","z">>, 136>>, <<<<"y","z","x","z">>, 137>>,
       <<<<"z","z","x","z">>, 138>>, <<<<"w","z","x","z">>, 139>>,
       <<<<"x","w","x","z">>, 140>>, <<<<"y","w","x","z">>, 141>>,
       <<<<"z","w","x","z">>, 142>>, <<<<"w","w","x","z">>, 143>>,
       <<<<"x","x","y","z">>, 144>>, <<<<"y","x","y","z">>, 145>>,
       <<<<"z","x","y","z">>, 146>>, <<<<"w","x","y","z">>, 147>>,
       <<<<"x","y","y","z">>, 148>>, <<<<"y","y","y","z">>, 149>>,
       <<<<"z","y","y","z">>, 150>>, <<<<"w","y","y","z">>, 151>>,
       <<<<"x","z","y","z">>, 152>>, <<<<"y","z","y","z">>, 153>>,
       <<<<"z","z","y","z">>, 154>>, <<<<"w","z","y","z">>, 155>>,
       <<<<"x","w","y","z">>, 156>>, <<<<"y","w","y","z">>, 157>>,
       <<<<"z","w","y","z">>, 158>>, <<<<"w","w","y","z">>, 159>>,
       <<<<"x","x","z","z">>, 160>>, <<<<"y","x","z","z">>, 161>>,
       <<<<"z","x","z","z">>, 162>>, <<<<"w","x","z","z">>, 163>>,
       <<<<"x","y","z","z">>, 164>>, <<<<"y","y","z","z">>, 165>>,
       <<<<"z","y","z","z">>, 166>>, <<<<"w","y","z","z">>, 167>>,
       <<<<"x","z","z","z">>, 168>>, <<<<"y","z","z","z">>, 169>>,
       <<<<"z","z","z","z">>, 170>>, <<<<"w","z","z","z">>, 171>>,
       <<<<"x","w","z","z">>, 172>>, <<<<"y","w","z","z">>, 173>>,
       <<<<"z","w","z","z">>, 174>>, <<<<"w","w","z","z">>, 175>>,
       <<<<"x","x","w","z">>, 176>>, <<<<"y","x","w","z">>, 177>>,
       <<<<"z","x","w","z">>, 178>>, <<<<"w","x","w","z">>, 179>>,
       <<<<"x","y","w","z">>, 180>>, <<<<"y","y","w","z">>, 181>>,
       <<<<"z","y","w","z">>, 182>>, <<<<"w","y","w","z">>, 183>>,
       <<<<"x","z","w","z">>, 184>>, <<<<"y","z","w","z">>, 185>>,
       <<<<"z","z","w","z">>, 186>>, <<<<"w","z","w","z">>, 187>>,
       <<<<"x","w","w","z">>, 188>>, <<<<"y","w","w","z">>, 189>>,
       <<<<"z","w","w","z">>, 190>>, <<<<"w","w","w","z">>, 191>>,
       <<<<"x","x","x","w">>, 192>>, <<<<"y","x","x","w">>, 193>>,
       <<<<"z","x","x","w">>, 194>>, <<<<"w","x","x","w">>, 195>>,
       <<<<"x","y","x","w">>, 196>>, <<<<"y","y","x","w">>, 197>>,
       <<<<"z","y","x","w">>, 198>>, <<<<"w","y","x","w">>, 199>>,
       <<<<"x","z","x","w">>, 200>>, <<<<"y","z","x","w">>, 201>>,
       <<<<"z","z","x","w">>, 202>>, <<<<"w","z","x","w">>, 203>>,
       <<<<"x","w","x","w">>, 204>>, <<<<"y","w","x","w">>, 205>>,
       <<<<"z","w","x","w">>, 206>>, <<<<"w","w","x","w">>, 207>>,
       <<<<"x","x","y","w">>, 208>>, <<<<"y","x","y","w">>, 209>>,
       <<<<"z","x","y","w">>, 210>>, <<<<"w","x","y","w">>, 211>>,
       <<<<"x","y","y","w">>, 212>>, <<<<"y","y","y","w">>, 213>>,
       <<<<"z","y","y","w">>, 214>>, <<<<"w","y","y","w">>, 215>>,
       <<<<"x","z","y","w">>, 216>>, <<<<"y","z","y","w">>, 217>>,
       <<<<"z","z","y","w">>, 218>>, <<<<"w","z","y","w">>, 219>>,
       <<<<"x","w","y","w">>, 220>>, <<<<"y","w","y","w">>, 221>>,
       <<<<"z","w","y","w">>, 222>>, <<<<"w","w","y","w">>, 223>>,
       <<<<"x","x","z","w">>, 224>>, <<<<"y","x","z","w">>, 225>>,
       <<<<"z","x","z","w">>, 226>>, <<<<"w","x","z","w">>, 227>>,
       <<<<"x","y","z","w">>, 228>>, <<<<"y","y","z","w">>, 229>>,
       <<<<"z","y","z","w">>, 230>>, <<<<"w","y","z","w">>, 231>>,
       <<<<"x","z","z","w">>, 232>>, <<<<"y","z","z","w">>, 233>>,
       <<<<"z","z","z","w">>, 234>>, <<<<"w","z","z","w">>, 235>>,
       <<<<"x","w","z","w">>, 236>>, <<<<"y","w","z","w">>, 237>>,
       <<<<"z","w","z","w">>, 238>>, <<<<"w","w","z","w">>, 239>>,
       <<<<"x","x","w","w">>, 240>>, <<<<"y","x","w","w">>, 241>>,
       <<<<"z","x","w","w">>, 242>>, <<<<"w","x","w","w">>, 243>>,
       <<<<"x","y","w","w">>, 244>>, <<<<"y","y","w","w">>, 245>>,
       <<<<"z","y","w","w">>, 246>>, <<<<"w","y","w","w">>, 247>>,
       <<<<"x","z","w","w">>, 248>>, <<<<"y","z","w","w">>, 249>>,
       <<<<"z","z","w","w">>, 250>>, <<<<"w","z","w","w">>, 251>>,
       <<<<"x","w","w","w">>, 252>>, <<<<"y","w","w","w">>, 253>>,
       <<<<"z","w","w","w">>, 254>>, <<<<"w","w","w","w">>, 255>>
    >>

\* the name (a tuple of four letters) and the immediate of accessor k
SwizzleName(k) == F32x4Swizzles[k][1]

\* a faulty variant: wzyx passes 57 (yzwx) where its name spells 27
SwizzleImm_typo(k) ==
    IF SwizzleName(k) = <<"w", "z", "y", "x">> THEN 57 ELSE F32x4Swizzles[k][2]

SwizzleImm(k) == F32x4Swizzles[k][2]

\* F32x4::xxxx .. F32x4::wwww: F32x4(_mm_shuffle_ps(self.0, self.0, imm))
F32x4_swizzle(v, k) == mm_shuffle_ps(v, v, SwizzleImm(k))

-----------------------------------------------------------------------------
(* I32x4 swizzles *)

\* _mm_castsi128_ps, _mm_castps_si128, _mm_castps_pd, _mm_castpd_ps,
\* _mm_castsi128_pd, _mm_castpd_si128: the same 128 bits under another type
mm_cast(x) == x

\* The four swizzle accessors of I32x4, in source order.
I32x4Swizzles ==
    << <<<<"x", "y", "x", "y">>, 68>>,
       <<<<"x", "w", "z", "y">>, 108>>,
       <<<<"z", "y", "x", "w">>, 198>>,
       <<<<"z", "w", "x", "y">>, 78>> >>

I32x4_swizzle(v, k) ==
    LET this == mm_cast(v)
    IN mm_cast(mm_shuffle_ps(this, this, I32x4Swizzles[k][2]))

-----------------------------------------------------------------------------
(* f32 and i32 scalars *)

\* sign, biased exponent and mantissa of an f32
F32Sign(s) == s[4] \div 128
F32Exp(s) == (s[4] % 128) * 2 + (s[3] \div 128)
F32Mant(s) == (s[3] % 128) * 65536 + s[2] * 256 + s[1]

IsNaN(s) == F32Exp(s) = 255 /\ F32Mant(s) # 0

\* a key that orders the f32 values that are not NaN as IEEE comparison
\* does: the magnitude bits, negated under the sign bit (so -0.0 = +0.0)
F32Key(s) ==
    LET mag == F32Exp(s) * 8388608 + F32Mant(s)
    IN IF F32Sign(s) = 1 THEN 0 - mag ELSE mag

\* the value of an i32 (two's complement)
I32Value(s) ==
    s[1] + s[2] * 256 + s[3] * 65536
    + (IF s[4] >= 128 THEN s[4] - 256 ELSE s[4]) * 16777216

-----------------------------------------------------------------------------
(* Comparison intrinsics: each lane of the result is all ones where the
   relation holds and all zeroes where it does not *)

\* the register whose lane i is all ones if holds[i], else all zeroes
LaneMask(holds) == [j \in 0..15 |-> IF holds[j \div 4] THEN 255 ELSE 0]

\* faulty variants: a comparison of bytes (_mm_cmpeq_epi8), and a comparison
\* of the lanes' bits (_mm_cmpeq_epi32)
mm_cmpeq_ps_bytewise(x, y) == [j \in 0..15 |-> IF x[j] = y[j] THEN 255 ELSE 0]

mm_cmpeq_ps_bits(x, y) == LaneMask([i \in Lanes |-> LaneOf(x, i) = LaneOf(y, i)])

\* _mm_cmpeq_ps: ordered equality, false where either lane is NaN
mm_cmpeq_ps(x, y) ==
    LaneMask([i \in Lanes |->
        /\ ~IsNaN(LaneOf(x, i)) /\ ~IsNaN(LaneOf(y, i))
        /\ F32Key(LaneOf(x, i)) = F32Key(LaneOf(y, i))])

\* a faulty variant: _mm_cmpnle_ps, the unordered not-less-or-equal, true
\* where either lane is NaN
mm_cmpnle_ps(x, y) ==
    LaneMask([i \in Lanes |->
        \/ IsNaN(LaneOf(x, i)) \/ IsNaN(LaneOf(y, i))
        \/ F32Key(LaneOf(x, i)) > F32Key(LaneOf(y, i))])

\* _mm_cmpgt_ps: ordered greater-than, false where either lane is NaN
mm_cmpgt_ps(x, y) ==
    LaneMask([i \in Lanes |->
        /\ ~IsNaN(LaneOf(x, i)) /\ ~IsNaN(LaneOf(y, i))
        /\ F32Key(LaneOf(x, i)) > F32Key(LaneOf(y, i))])

\* _mm_cmpeq_epi32: equality of the 32 bits
mm_cmpeq_epi32(x, y) == LaneMask([i \in Lanes |-> LaneOf(x, i) = LaneOf(y, i)])

\* _mm_cmpgt_epi32: signed greater-than
mm_cmpgt_epi32(x, y) ==
    LaneMask([i \in Lanes |-> I32Value(LaneOf(x, i)) > I32Value(LaneOf(y, i))])

\* _mm_xor_si128
mm_xor_si128(x, y) == [j \in 0..15 |-> Xor8(x[j], y[j])]

\* a faulty variant: x goes to lane 0 and the other lanes are cleared
mm_set1_epi32_lane0_only(s) == FromLanes(s, <<0, 0, 0, 0>>, <<0, 0, 0, 0>>, <<0, 0, 0, 0>>)

\* _mm_set1_epi32(x): the 4 bytes of x in every lane
mm_set1_epi32(s) == FromLanes(s, s, s, s)

\* a faulty variant: only lane 0 is tested
mm_test_all_ones_low(x) == IF \A j \in 0..3 : And8(255 - x[j], 255) = 0 THEN 1 ELSE 0

\* _mm_test_all_ones(x): 1 if (!x & all-ones) is zero, else 0
mm_test_all_ones(x) == IF \A j \in 0..15 : And8(255 - x[j], 255) = 0 THEN 1 ELSE 0

\* a faulty variant: only the low 64 bits are tested
mm_test_all_zeros_low(x, m) == IF \A j \in 0..7 : And8(x[j], m[j]) = 0 THEN 1 ELSE 0

\* _mm_test_all_zeros(x, m): 1 if (x & m) is zero, else 0
mm_test_all_zeros(x, m) == IF \A j \in 0..15 : And8(x[j], m[j]) = 0 THEN 1 ELSE 0

-----------------------------------------------------------------------------
(* U32x4 *)

\* !0u32
U32Max == <<255, 255, 255, 255>>

U32x4_splat(s) == mm_set1_epi32(s)

U32x4_is_all_ones(v) == mm_test_all_ones(v) # 0

U32x4_is_all_zeroes(v) == mm_test_all_zeros(v, v) # 0

U32x4_packed_eq(v, w) == mm_cmpeq_epi32(v, w)

U32x4_bitxor(v, w) == mm_xor_si128(v, w)

\* a faulty variant: the top bit of each lane is kept
U32x4_not_but_top_bit(v) == U32x4_bitxor(v, U32x4_splat(<<255, 255, 255, 127>>))

\* Not for U32x4: self ^ U32x4::splat(!0)
U32x4_not(v) == U32x4_bitxor(v, U32x4_splat(U32Max))

U32x4_eq(v, w) == U32x4_is_all_ones(U32x4_packed_eq(v, w))

-----------------------------------------------------------------------------
(* F32x4 comparisons *)

F32x4_packed_eq(v, w) == mm_cast(mm_cmpeq_ps(v, w))

F32x4_packed_gt(v, w) == mm_cast(mm_cmpgt_ps(v, w))

\* a faulty variant: the operands are not exchanged
F32x4_packed_lt_same_order(v, w) == F32x4_packed_gt(v, w)

F32x4_packed_lt(v, w) == F32x4_packed_gt(w, v)

F32x4_packed_le(v, w) == U32x4_not(F32x4_packed_gt(v, w))

F32x4_eq(v, w) == U32x4_is_all_ones(F32x4_packed_eq(v, w))

-----------------------------------------------------------------------------
(* I32x4 comparisons *)

I32x4_packed_eq(v, w) == mm_cmpeq_epi32(v, w)

I32x4_packed_gt(v, w) == mm_cmpgt_epi32(v, w)

I32x4_packed_le(v, w) == U32x4_not(I32x4_packed_gt(v, w))

I32x4_eq(v, w) == U32x4_is_all_ones(I32x4_packed_eq(v, w))

-----------------------------------------------------------------------------
(* Lane access *)

\* Index for F32x4 / I32x4 / U32x4: &transmute::<_, &[T; 4]>(&self.0)[index]
Lane32_index(v, i) == LaneOf(v, i)

\* the bounds check of [T; 4]'s index: an index that fails it panics
IndexInBounds(i) == i < 4

\* a faulty variant: the index counts bytes
Lane32_store_at_byte(v, i, s) ==
    [j \in 0..15 |-> IF j \in i..(i + 3) THEN s[j - i + 1] ELSE v[j]]

\* IndexMut for F32x4 / I32x4, followed by a store: self[index] = s
Lane32_store(v, i, s) ==
    [j \in 0..15 |-> IF j \div 4 = i THEN s[(j % 4) + 1] ELSE v[j]]

-----------------------------------------------------------------------------
(* Concatenations and transpose *)

\* a half of x (the high one if lo = 1), then a half of y (the high one if
\* hi = 1)
Halves(lo, hi, x, y) ==
    [j \in 0..15 |-> IF j < 8 THEN (IF lo = 1 THEN x[j + 8] ELSE x[j])
                     ELSE (IF hi = 1 THEN y[j] ELSE y[j - 8])]

\* _mm_unpacklo_pd(x, y): the low half of x, then the low half of y
mm_unpacklo_pd(x, y) == Halves(0, 0, x, y)

\* _mm_unpackhi_pd(x, y): the high half of x, then the high half of y
mm_unpackhi_pd(x, y) == Halves(1, 1, x, y)

\* a faulty variant: the two bits of imm exchanged
mm_shuffle_pd_bits_swapped(x, y, imm) == Halves(Bit(imm, 1), Bit(imm, 0), x, y)

\* _mm_shuffle_pd(x, y, imm): the half of x that bit 0 of imm selects, then
\* the half of y that bit 1 selects
mm_shuffle_pd(x, y, imm) == Halves(Bit(imm, 0), Bit(imm, 1), x, y)

F32x4_concat_xy_xy(v, w) ==
    LET this == mm_cast(v)
        other == mm_cast(w)
    IN mm_cast(mm_unpacklo_pd(this, other))

\* the immediate is 0b10
F32x4_concat_xy_zw(v, w) ==
    LET this == mm_cast(v)
        other == mm_cast(w)
    IN mm_cast(mm_shuffle_pd(this, other, 2))

F32x4_concat_zw_zw(v, w) ==
    LET this == mm_cast(v)
        other == mm_cast(w)
    IN mm_cast(mm_unpackhi_pd(this, other))

\* the immediate is 0b0001_1011
F32x4_concat_wz_yx(v, w) == mm_shuffle_ps(v, w, 27)

I32x4_concat_xy_xy(v, w) ==
    LET this == mm_cast(v)
        other == mm_cast(w)
    IN mm_cast(mm_unpacklo_pd(this, other))

\* _mm_unpacklo_ps(x, y) = [x0, y0, x1, y1]
mm_unpacklo_ps(x, y) ==
    FromLanes(LaneOf(x, 0), LaneOf(y, 0), LaneOf(x, 1), LaneOf(y, 1))

\* _mm_unpackhi_ps(x, y) = [x2, y2, x3, y3]
mm_unpackhi_ps(x, y) ==
    FromLanes(LaneOf(x, 2), LaneOf(y, 2), LaneOf(x, 3), LaneOf(y, 3))

\* _mm_movelh_ps(x, y) = [x0, x1, y0, y1]
mm_movelh_ps(x, y) ==
    FromLanes(LaneOf(x, 0), LaneOf(x, 1), LaneOf(y, 0), LaneOf(y, 1))

\* a faulty variant: [x2, x3, y2, y3]
mm_movehl_ps_operands_swapped(x, y) ==
    FromLanes(LaneOf(x, 2), LaneOf(x, 3), LaneOf(y, 2), LaneOf(y, 3))

\* _mm_movehl_ps(x, y) = [y2, y3, x2, x3]
mm_movehl_ps(x, y) ==
    FromLanes(LaneOf(y, 2), LaneOf(y, 3), LaneOf(x, 2), LaneOf(x, 3))

\* a faulty variant: rows 1 and 2 stored in each other's place
MM_TRANSPOSE4_PS_rows_misplaced(row0, row1, row2, row3) ==
    LET tmp0 == mm_unpacklo_ps(row0, row1)
        tmp2 == mm_unpacklo_ps(row2, row3)
        tmp1 == mm_unpackhi_ps(row0, row1)
        tmp3 == mm_unpackhi_ps(row2, row3)
    IN << mm_movelh_ps(tmp0, tmp2), mm_movelh_ps(tmp1, tmp3),
          mm_movehl_ps(tmp2, tmp0), mm_movehl_ps(tmp3, tmp1) >>

\* _MM_TRANSPOSE4_PS(&mut row0, &mut row1, &mut row2, &mut row3): the four
\* rows after the call
MM_TRANSPOSE4_PS(row0, row1, row2, row3) ==
    LET tmp0 == mm_unpacklo_ps(row0, row1)
        tmp2 == mm_unpacklo_ps(row2, row3)
        tmp1 == mm_unpackhi_ps(row0, row1)
        tmp3 == mm_unpackhi_ps(row2, row3)
    IN << mm_movelh_ps(tmp0, tmp2), mm_movehl_ps(tmp2, tmp0),
          mm_movelh_ps(tmp1, tmp3), mm_movehl_ps(tmp3, tmp1) >>

\* F32x4::transpose_4x4(&mut a, &mut b, &mut c, &mut d): the four vectors
\* after the call
F32x4_transpose_4x4(va, vb, vc, vd) == MM_TRANSPOSE4_PS(va, vb, vc, vd)

-----------------------------------------------------------------------------
(* f32 arithmetic on small integers.  Sums, differences and products of
   integers below 2^24 in magnitude are exact in f32, so no rounding is
   modelled; the operators are undefined on any other operand. *)

\* the f32 holds an integer
IsF32Int(s) ==
    \/ F32Exp(s) = 0 /\ F32Mant(s) = 0
    \/ /\ F32Exp(s) >= 127 /\ F32Exp(s) <= 150
       /\ (8388608 + F32Mant(s)) % Pow2(150 - F32Exp(s)) = 0

\* the integer an f32 holds: (-1)^sign * (2^23 + mantissa) * 2^(exp - 150)
F32ToInt(s) ==
    CASE F32Exp(s) = 0 /\ F32Mant(s) = 0 -> 0
      [] IsF32Int(s) /\ F32Exp(s) # 0 ->
            LET mag == (8388608 + F32Mant(s)) \div Pow2(150 - F32Exp(s))
            IN IF F32Sign(s) = 1 THEN 0 - mag ELSE mag

\* the f32 with the given sign bit, biased exponent and mantissa
F32Pack(sign, exp, mant) ==
    << mant % 256,
       (mant \div 256) % 256,
       (exp % 2) * 128 + (mant \div 65536),
       sign * 128 + (exp \div 2) >>

\* the f32 holding the integer n, 0 < |n| < 2^24, or the zero of sign zsign
IntToF32(n, zsign) ==
    IF n = 0 THEN F32Pack(zsign, 0, 0)
    ELSE LET mag == IF n < 0 THEN 0 - n ELSE n
             e == CHOOSE k \in 0..23 : Pow2(k) <= mag /\ mag < Pow2(k + 1)
         IN F32Pack(IF n < 0 THEN 1 ELSE 0, e + 127, mag * Pow2(23 - e) - 8388608)

\* x * y: a zero product has the XOR of the signs
F32Mul(x, y) ==
    IntToF32(F32ToInt(x) * F32ToInt(y), (F32Sign(x) + F32Sign(y)) % 2)

\* x - y, rounding to nearest: a zero difference is -0.0 only for (-0.0) - (+0.0)
F32Sub(x, y) ==
    IntToF32(F32ToInt(x) - F32ToInt(y),
             IF F32ToInt(x) = 0 /\ F32ToInt(y) = 0
                /\ F32Sign(x) = 1 /\ F32Sign(y) = 0 THEN 1 ELSE 0)

\* _mm_mul_ps, _mm_sub_ps: lane by lane
mm_mul_ps(x, y) ==
    FromLanes(F32Mul(LaneOf(x, 0), LaneOf(y, 0)), F32Mul(LaneOf(x, 1), LaneOf(y, 1)),
              F32Mul(LaneOf(x, 2), LaneOf(y, 2)), F32Mul(LaneOf(x, 3), LaneOf(y, 3)))

mm_sub_ps(x, y) ==
    FromLanes(F32Sub(LaneOf(x, 0), LaneOf(y, 0)), F32Sub(LaneOf(x, 1), LaneOf(y, 1)),
              F32Sub(LaneOf(x, 2), LaneOf(y, 2)), F32Sub(LaneOf(x, 3), LaneOf(y, 3)))

\* impl Mul / Sub for F32x4
F32x4_mul(v, w) == mm_mul_ps(v, w)

F32x4_sub(v, w) == mm_sub_ps(v, w)

\* every lane of v is an integer below 2^11 in magnitude: the operands on
\* which the f32 sums, differences and products above are defined
ExactLanes(v) ==
    \A i \in Lanes :
        /\ IsF32Int(LaneOf(v, i))
        /\ F32Exp(LaneOf(v, i)) < 138

-----------------------------------------------------------------------------
(* Cross product *)

\* the accessor with the given name
SwizzleNamed(n) == CHOOSE k \in 1..Len(F32x4Swizzles) : SwizzleName(k) = n

F32x4_yzxw(v) == F32x4_swizzle(v, SwizzleNamed(<<"y", "z", "x", "w">>))

F32x4_zxyw(v) == F32x4_swizzle(v, SwizzleNamed(<<"z", "x", "y", "w">>))

\* a faulty variant: yzxw and zxyw exchanged
F32x4_cross_swizzles_exchanged(v, w) ==
    F32x4_sub(F32x4_mul(F32x4_zxyw(v), F32x4_yzxw(w)),
              F32x4_mul(F32x4_yzxw(v), F32x4_zxyw(w)))

\* self.yzxw() * other.zxyw() - self.zxyw() * other.yzxw()
F32x4_cross(v, w) ==
    F32x4_sub(F32x4_mul(F32x4_yzxw(v), F32x4_zxyw(w)),
              F32x4_mul(F32x4_zxyw(v), F32x4_yzxw(w)))

-----------------------------------------------------------------------------
(* U8x16 *)

\* I32x4::new
I32x4_new(s0, s1, s2, s3) == FromLanes(s0, s1, s2, s3)

\* a faulty variant: the bytes of each lane are numbered from the most
\* significant one
I32x4_as_u8x16_big_endian(v) == [j \in 0..15 |-> v[4 * (j \div 4) + 3 - (j % 4)]]

\* I32x4::as_u8x16 / U8x16::as_i32x4: the register under another type
I32x4_as_u8x16(v) == v

U8x16_as_i32x4(v) == v

\* a faulty variant: bit 7 of the index is ignored
mm_shuffle_epi8_never_zeroed(x, idx) == [j \in 0..15 |-> x[And8(idx[j], 15)]]

\* _mm_shuffle_epi8(x, idx): byte j is 0 if bit 7 of idx[j] is set, else the
\* byte of x that the low 4 bits of idx[j] select
mm_shuffle_epi8(x, idx) ==
    [j \in 0..15 |-> IF And8(idx[j], 128) # 0 THEN 0 ELSE x[And8(idx[j], 15)]]

U8x16_shuffle(v, indices) == mm_shuffle_epi8(v, indices)

-----------------------------------------------------------------------------
(* The four types and what each offers *)

Types == {"F32x4", "I32x4", "U32x4", "U8x16"}

\* the functions of each type's impl block (the swizzles are listed in
\* F32x4Swizzles and I32x4Swizzles) and the traits implemented for it
Api ==
    [ty \in Types |->
        CASE ty = "F32x4" ->
               {"new", "splat", "min", "max", "abs", "floor", "ceil",
                "packed_eq", "packed_gt", "packed_lt", "packed_le", "to_i32x4",
                "concat_xy_xy", "concat_xy_zw", "concat_zw_zw", "concat_wz_yx",
                "transpose_4x4", "cross",
                "Default", "Index", "IndexMut", "Debug", "PartialEq",
                "Add", "AddAssign", "Mul", "MulAssign", "Sub", "SubAssign",
                "Neg"}
          [] ty = "I32x4" ->
               {"new", "splat", "concat_xy_xy", "as_u8x16", "min", "packed_eq",
                "packed_gt", "packed_le",
                "Default", "Index", "IndexMut", "Add", "Sub", "Mul", "Debug",
                "PartialEq"}
          [] ty = "U32x4" ->
               {"new", "splat", "is_all_ones", "is_all_zeroes", "packed_eq",
                "Debug", "Index", "PartialEq", "Not", "BitXor"}
          [] ty = "U8x16" ->
               {"as_i32x4", "shuffle"}]

\* _mm_set1_ps(x): x in every lane
mm_set1_ps(s) == FromLanes(s, s, s, s)

F32x4_splat(s) == mm_set1_ps(s)

I32x4_splat(s) == mm_set1_epi32(s)

\* U32x4::new: _mm_loadu_si128 of the array [a, b, c, d]
U32x4_new(s0, s1, s2, s3) == FromLanes(s0, s1, s2, s3)

-----------------------------------------------------------------------------
(* I32x4 arithmetic: 32-bit lanes, computed byte by byte with carries *)

\* the low 32 bits of s + t
I32Add(s, t) ==
    LET c1 == s[1] + t[1]
        c2 == s[2] + t[2] + c1 \div 256
        c3 == s[3] + t[3] + c2 \div 256
        c4 == s[4] + t[4] + c3 \div 256
    IN <<c1 % 256, c2 % 256, c3 % 256, c4 % 256>>

\* the low 32 bits of s - t, as s + !t + 1
I32Sub(s, t) ==
    LET c1 == s[1] + (255 - t[1]) + 1
        c2 == s[2] + (255 - t[2]) + c1 \div 256
        c3 == s[3] + (255 - t[3]) + c2 \div 256
        c4 == s[4] + (255 - t[4]) + c3 \div 256
    IN <<c1 % 256, c2 % 256, c3 % 256, c4 % 256>>

\* the low 32 bits of s * t, the same for signed and unsigned factors
I32Mullo(s, t) ==
    LET c1 == s[1] * t[1]
        c2 == s[1] * t[2] + s[2] * t[1] + c1 \div 256
        c3 == s[1] * t[3] + s[2] * t[2] + s[3] * t[1] + c2 \div 256
        c4 == s[1] * t[4] + s[2] * t[3] + s[3] * t[2] + s[4] * t[1] + c3 \div 256
    IN <<c1 % 256, c2 % 256, c3 % 256, c4 % 256>>

\* a faulty variant: _mm_add_epi64, whose carries run through 64 bits
mm_add_epi64(x, y) ==
    LET lo(h) == I32Add(LaneOf(x, 2 * h), LaneOf(y, 2 * h))
        carry(h) == IF \E j \in 1..4 : /\ lo(h)[5 - j] < LaneOf(x, 2 * h)[5 - j]
                                       /\ \A k \in 1..(j - 1) :
                                             lo(h)[5 - k] = LaneOf(x, 2 * h)[5 - k]
                      THEN <<1, 0, 0, 0>> ELSE <<0, 0, 0, 0>>
        hi(h) == I32Add(I32Add(LaneOf(x, 2 * h + 1), LaneOf(y, 2 * h + 1)), carry(h))
    IN FromLanes(lo(0), hi(0), lo(1), hi(1))

\* _mm_add_epi32
mm_add_epi32(x, y) ==
    [j \in 0..15 |-> I32Add(LaneOf(x, j \div 4), LaneOf(y, j \div 4))[(j % 4) + 1]]

\* _mm_sub_epi32
mm_sub_epi32(x, y) ==
    [j \in 0..15 |-> I32Sub(LaneOf(x, j \div 4), LaneOf(y, j \div 4))[(j % 4) + 1]]

\* a faulty variant: _mm_mullo_epi16, the low 16 bits of the products of the
\* 16-bit halves
mm_mullo_epi16(x, y) ==
    [j \in 0..15 |->
        LET p == 2 * (j \div 2)
            c1 == x[p] * y[p]
            c2 == x[p] * y[p + 1] + x[p + 1] * y[p] + c1 \div 256
        IN IF j % 2 = 0 THEN c1 % 256 ELSE c2 % 256]

\* _mm_mullo_epi32
mm_mullo_epi32(x, y) ==
    [j \in 0..15 |-> I32Mullo(LaneOf(x, j \div 4), LaneOf(y, j \div 4))[(j % 4) + 1]]

\* a faulty variant: _mm_min_epu32, the unsigned minimum
mm_min_epu32(x, y) ==
    LET key(s) == <<s[4] * 256 + s[3], s[2] * 256 + s[1]>>
        less(s, t) == \/ key(s)[1] < key(t)[1]
                      \/ key(s)[1] = key(t)[1] /\ key(s)[2] < key(t)[2]
    IN [j \in 0..15 |->
           IF less(LaneOf(x, j \div 4), LaneOf(y, j \div 4)) THEN x[j] ELSE y[j]]

\* _mm_min_epi32: the signed minimum
mm_min_epi32(x, y) ==
    [j \in 0..15 |->
        IF I32Value(LaneOf(x, j \div 4)) < I32Value(LaneOf(y, j \div 4))
          THEN x[j] ELSE y[j]]

I32x4_add(v, w) == mm_add_epi32(v, w)

I32x4_sub(v, w) == mm_sub_epi32(v, w)

I32x4_mul(v, w) == mm_mullo_epi32(v, w)

I32x4_min(v, w) == mm_min_epi32(v, w)

-----------------------------------------------------------------------------
(* F32x4 basic operations and conversion *)

\* x + y, rounding to nearest: a zero sum is -0.0 only for (-0.0) + (-0.0)
F32Add(x, y) ==
    IntToF32(F32ToInt(x) + F32ToInt(y),
             IF F32ToInt(x) = 0 /\ F32ToInt(y) = 0
                /\ F32Sign(x) = 1 /\ F32Sign(y) = 1 THEN 1 ELSE 0)

\* _mm_add_ps: lane by lane
mm_add_ps(x, y) ==
    FromLanes(F32Add(LaneOf(x, 0), LaneOf(y, 0)), F32Add(LaneOf(x, 1), LaneOf(y, 1)),
              F32Add(LaneOf(x, 2), LaneOf(y, 2)), F32Add(LaneOf(x, 3), LaneOf(y, 3)))

F32x4_add(v, w) == mm_add_ps(v, w)

F32x4_default == ZeroReg

\* impl Neg for F32x4: F32x4::default() - self
F32x4_neg(v) == F32x4_sub(F32x4_default, v)

\* the new self of a += b, a *= b
F32x4_add_assign(v, w) == mm_add_ps(v, w)

F32x4_mul_assign(v, w) == mm_mul_ps(v, w)

\* a faulty variant: the operands are exchanged
F32x4_sub_assign_reversed(v, w) == mm_sub_ps(w, v)

\* the new self of a -= b
F32x4_sub_assign(v, w) == mm_sub_ps(v, w)

\* x < y as _mm_min_ps and _mm_max_ps compare: false if either is NaN
F32Less(x, y) == ~IsNaN(x) /\ ~IsNaN(y) /\ F32Key(x) < F32Key(y)

\* _mm_min_ps: x where x < y, else y (so y for a NaN, and for two zeroes)
mm_min_ps(x, y) ==
    [j \in 0..15 |->
        IF F32Less(LaneOf(x, j \div 4), LaneOf(y, j \div 4)) THEN x[j] ELSE y[j]]

\* _mm_max_ps: x where x > y, else y
mm_max_ps(x, y) ==
    [j \in 0..15 |->
        IF F32Less(LaneOf(y, j \div 4), LaneOf(x, j \div 4)) THEN x[j] ELSE y[j]]

F32x4_min(v, w) == mm_min_ps(v, w)

F32x4_max(v, w) == mm_max_ps(v, w)

\* a faulty variant: _mm_srai_epi32, the arithmetic shift, where copies of
\* the lane's sign bit come in
mm_srai_epi32(x, n) ==
    [j \in 0..15 |->
        LET k == (j % 4) + n \div 8
            fill == IF x[4 * (j \div 4) + 3] >= 128 THEN 255 ELSE 0
            byte(m) == IF m <= 3 THEN x[4 * (j \div 4) + m] ELSE fill
        IN (byte(k) \div Pow2(n % 8))
           + (byte(k + 1) % Pow2(n % 8)) * Pow2(8 - (n % 8))]

\* _mm_srli_epi32(x, n), 0 <= n <= 31: each lane shifted right by n bits,
\* zeroes coming in
mm_srli_epi32(x, n) ==
    [j \in 0..15 |->
        LET k == (j % 4) + n \div 8
            byte(m) == IF m <= 3 THEN x[4 * (j \div 4) + m] ELSE 0
        IN (byte(k) \div Pow2(n % 8))
           + (byte(k + 1) % Pow2(n % 8)) * Pow2(8 - (n % 8))]

\* _mm_and_ps
mm_and_ps(x, y) == [j \in 0..15 |-> And8(x[j], y[j])]

\* the i32 holding the integer n, -2^31 < n < 2^31
I32FromInt(n) ==
    LET u == IF n < 0 THEN (n + 2147483647) + 1 ELSE n
    IN << u % 256, (u \div 256) % 256, (u \div 65536) % 256,
          (u \div 16777216) + (IF n < 0 THEN 128 ELSE 0) >>

\* the mask of F32x4::abs: let tmp = _mm_srli_epi32(I32x4::splat(-1).0, 1)
F32x4_abs_tmp == mm_srli_epi32(I32x4_splat(I32FromInt(-1)), 1)

F32x4_abs(v) ==
    LET tmp == F32x4_abs_tmp
    IN mm_and_ps(mm_cast(tmp), v)

\* an f32 below 2^23 in magnitude is F32Sig / 2^F32Shift (a denormal has
\* the exponent of the smallest normal number and no hidden bit)
F32Sig(s) == IF F32Exp(s) = 0 THEN F32Mant(s) ELSE 8388608 + F32Mant(s)

F32Shift(s) == 150 - (IF F32Exp(s) = 0 THEN 1 ELSE F32Exp(s))

\* its whole part, and how the rest compares with one half
F32Whole(s) == IF F32Shift(s) > 24 THEN 0 ELSE F32Sig(s) \div Pow2(F32Shift(s))

F32Rest(s) ==
    IF F32Shift(s) > 24
      THEN (IF F32Sig(s) = 0 THEN "none" ELSE "below half")
      ELSE LET rest == F32Sig(s) % Pow2(F32Shift(s))
               half == Pow2(F32Shift(s) - 1)
           IN CASE rest = 0 -> "none"
                [] rest > 0 /\ rest < half -> "below half"
                [] rest = half -> "half"
                [] rest > half -> "above half"

\* the magnitude of an f32 below 2^31, rounded to an integer as the rounding
\* control rc says
F32Rounded(s, rc) ==
    IF F32Exp(s) >= 150
      THEN F32Sig(s) * Pow2(F32Exp(s) - 150)
      ELSE F32Whole(s)
           + (IF CASE rc = "nearest" ->
                        \/ F32Rest(s) = "above half"
                        \/ F32Rest(s) = "half" /\ F32Whole(s) % 2 = 1
                   [] rc = "down" -> F32Sign(s) = 1 /\ F32Rest(s) # "none"
                   [] rc = "up" -> F32Sign(s) = 0 /\ F32Rest(s) # "none"
                   [] rc = "zero" -> FALSE
              THEN 1 ELSE 0)

\* the rounding control field of MXCSR: round to nearest (even), its value
\* at thread start; nothing in the crate writes MXCSR
MXCSR_RC == "nearest"

\* cvtps2dq / cvttps2dq of one lane: the rounded value, or the "integer
\* indefinite" 0x80000000 for a NaN and for a magnitude of 2^31 or more
CvtF32ToI32(s, rc) ==
    IF F32Exp(s) >= 158
      THEN <<0, 0, 0, 128>>
      ELSE I32FromInt(IF F32Sign(s) = 1 THEN 0 - F32Rounded(s, rc)
                                        ELSE F32Rounded(s, rc))

\* a faulty variant: _mm_cvttps_epi32, which truncates
mm_cvttps_epi32(x) ==
    [j \in 0..15 |-> CvtF32ToI32(LaneOf(x, j \div 4), "zero")[(j % 4) + 1]]

\* _mm_cvtps_epi32: rounds as MXCSR says
mm_cvtps_epi32(x) ==
    [j \in 0..15 |-> CvtF32ToI32(LaneOf(x, j \div 4), MXCSR_RC)[(j % 4) + 1]]

F32x4_to_i32x4(v) == mm_cvtps_epi32(v)

\* roundps of one lane towards rc ("down" or "up"): a NaN is made quiet, an
\* infinity, a zero and an integer are kept, a zero result has the sign of
\* the operand
F32RoundToIntegral(s, rc) ==
    IF F32Exp(s) = 255
      THEN (IF F32Mant(s) = 0 \/ F32Mant(s) >= 4194304 THEN s
            ELSE F32Pack(F32Sign(s), 255, F32Mant(s) + 4194304))
    ELSE IF F32Exp(s) >= 150 \/ F32Sig(s) = 0 THEN s
    ELSE IntToF32(IF F32Sign(s) = 1 THEN 0 - F32Rounded(s, rc) ELSE F32Rounded(s, rc),
                  F32Sign(s))

\* _mm_floor_ps, _mm_ceil_ps
mm_floor_ps(x) ==
    [j \in 0..15 |-> F32RoundToIntegral(LaneOf(x, j \div 4), "down")[(j % 4) + 1]]

mm_ceil_ps(x) ==
    [j \in 0..15 |-> F32RoundToIntegral(LaneOf(x, j \div 4), "up")[(j % 4) + 1]]

F32x4_floor(v) == mm_floor_ps(v)

F32x4_ceil(v) == mm_ceil_ps(v)

-----------------------------------------------------------------------------
(* Operands *)

\* the scalar with bytes b3 b2 b1 b0, most significant first
W(b3, b2, b1, b0) == <<b0, b1, b2, b3>>

\* the 32-bit patterns the operands' lanes are drawn from, as f32 (and as
\* i32 / u32 where that is the interesting reading)
F32Lanes ==
    << W(63, 128, 0, 0),     \*  1.0                    3F800000
       W(64, 0, 0, 0),       \*  2.0                    40000000
       W(0, 0, 0, 0),        \* +0.0                    00000000
       W(191, 128, 0, 0),    \* -1.0                    BF800000
       W(127, 192, 0, 0),    \*  NaN                    7FC00000
       W(128, 0, 0, 0),      \* -0.0  (i32::MIN)        80000000
       W(127, 128, 0, 0),    \* +inf                    7F800000
       W(64, 64, 0, 0),      \*  3.0                    40400000
       W(255, 128, 0, 0),    \* -inf                    FF800000
       W(192, 0, 0, 0),      \* -2.0                    C0000000
       W(255, 255, 255, 255),\*  NaN  (-1i32, !0u32)    FFFFFFFF
       W(0, 0, 0, 1),        \*  2^-149  (1i32)         00000001
       W(127, 255, 255, 255),\*  NaN  (i32::MAX)        7FFFFFFF
       W(64, 128, 0, 0),     \*  4.0                    40800000
       W(63, 0, 0, 0),       \*  0.5                    3F000000
       W(128, 0, 0, 1),      \* -2^-149                 80000001
       W(127, 127, 255, 255),\*  f32::MAX               7F7FFFFF
       W(63, 192, 0, 0),     \*  1.5                    3FC00000
       W(192, 64, 0, 0),     \* -3.0                    C0400000
       W(64, 160, 0, 0) >>   \*  5.0                    40A00000

\* how many of F32Lanes are used, and the largest stride between the lanes
\* of an operand
NumF32Vals == 16
MaxStride == 2

F32Val(n) == F32Lanes[(n % NumF32Vals) + 1]

\* F32x4::new(F32Val(s), F32Val(s + t), F32Val(s + 2t), F32Val(s + 3t))
F32x4_new(s0, s1, s2, s3) == FromLanes(s0, s1, s2, s3)

Vec(s, t) == F32x4_new(F32Val(s), F32Val(s + t), F32Val(s + 2 * t), F32Val(s + 3 * t))

Vecs == {Vec(s, t) : s \in 0..(NumF32Vals - 1), t \in 0..MaxStride}

-----------------------------------------------------------------------------
(* The caller: swizzles *)

InitOne ==
    /\ a \in Vecs
    /\ b = ZeroReg /\ c = ZeroReg /\ d = ZeroReg
    /\ r = ZeroReg /\ flag = FALSE
    /\ op = "init" /\ prev = "" /\ arg = 0
    /\ orig = <<a, b, c, d>>
    /\ steps = 0
    /\ val = ZeroLane

\* r := a.<name k>() for one of the 256 F32x4 accessors
F32Swizzle ==
    /\ op = "init"
    /\ \E k \in 1..Len(F32x4Swizzles) :
          /\ r' = F32x4_swizzle(a, k)
          /\ arg' = k
    /\ op' = "F32x4.swizzle" /\ prev' = op
    /\ UNCHANGED <<a, b, c, d, flag, orig, steps, val>>

\* r := a.<name k>() for one of the 4 I32x4 accessors
I32Swizzle ==
    /\ op = "init"
    /\ \E k \in 1..Len(I32x4Swizzles) :
          /\ r' = I32x4_swizzle(a, k)
          /\ arg' = k
    /\ op' = "I32x4.swizzle" /\ prev' = op
    /\ UNCHANGED <<a, b, c, d, flag, orig, steps, val>>

NextSwizzle == F32Swizzle \/ I32Swizzle

SpecSwizzle == InitOne /\ [][NextSwizzle]_vars

-----------------------------------------------------------------------------
(* The caller: comparisons, equality and masks *)

\* a and b are built alike, or b is a copy of a with one lane overwritten
InitTwo ==
    /\ \E s \in 0..(NumF32Vals - 1), t \in 0..MaxStride :
          /\ a = Vec(s, t)
          /\ b \in {Vec(n, t) : n \in 0..(NumF32Vals - 1)}
                   \cup {Lane32_store(a, i, F32Val(n)) :
                            i \in Lanes, n \in 0..(NumF32Vals - 1)}
    /\ c = ZeroReg /\ d = ZeroReg
    /\ r = ZeroReg /\ flag = FALSE
    /\ op = "init" /\ prev = "" /\ arg = 0
    /\ orig = <<a, b, c, d>>
    /\ steps = 0
    /\ val = ZeroLane

\* a and b are built alike
InitPair ==
    /\ \E s \in 0..(NumF32Vals - 1), t \in 0..MaxStride :
          /\ a = Vec(s, t)
          /\ b \in {Vec(n, t) : n \in 0..(NumF32Vals - 1)}
    /\ c = ZeroReg /\ d = ZeroReg
    /\ r = ZeroReg /\ flag = FALSE
    /\ op = "init" /\ prev = "" /\ arg = 0
    /\ orig = <<a, b, c, d>>
    /\ steps = 0
    /\ val = ZeroLane

CmpOps == {"F32x4.packed_eq", "F32x4.packed_gt", "F32x4.packed_lt",
           "F32x4.packed_le", "I32x4.packed_eq", "I32x4.packed_gt",
           "I32x4.packed_le", "U32x4.packed_eq"}

PackedCmp(kind, v, w) ==
    CASE kind = "F32x4.packed_eq" -> F32x4_packed_eq(v, w)
      [] kind = "F32x4.packed_gt" -> F32x4_packed_gt(v, w)
      [] kind = "F32x4.packed_lt" -> F32x4_packed_lt(v, w)
      [] kind = "F32x4.packed_le" -> F32x4_packed_le(v, w)
      [] kind = "I32x4.packed_eq" -> I32x4_packed_eq(v, w)
      [] kind = "I32x4.packed_gt" -> I32x4_packed_gt(v, w)
      [] kind = "I32x4.packed_le" -> I32x4_packed_le(v, w)
      [] kind = "U32x4.packed_eq" -> U32x4_packed_eq(v, w)

\* r := a.packed_<rel>(b)
Compare ==
    /\ op = "init"
    /\ \E kind \in CmpOps :
          /\ r' = PackedCmp(kind, a, b)
          /\ op' = kind
    /\ prev' = op
    /\ UNCHANGED <<a, b, c, d, flag, arg, orig, steps, val>>

EqOps == {"F32x4.eq", "I32x4.eq", "U32x4.eq"}

\* flag := (a == b)
StructEq ==
    /\ op = "init"
    /\ \E kind \in EqOps :
          /\ flag' = CASE kind = "F32x4.eq" -> F32x4_eq(a, b)
                       [] kind = "I32x4.eq" -> I32x4_eq(a, b)
                       [] kind = "U32x4.eq" -> U32x4_eq(a, b)
          /\ op' = kind
    /\ prev' = op
    /\ UNCHANGED <<a, b, c, d, r, arg, orig, steps, val>>

\* r := !r, for r a comparison's mask
MaskNot ==
    /\ op \in CmpOps
    /\ r' = U32x4_not(r)
    /\ op' = "U32x4.not" /\ prev' = op
    /\ UNCHANGED <<a, b, c, d, flag, arg, orig, steps, val>>

\* r := r ^ a.packed_<rel>(b), for r a comparison's mask
MaskXor ==
    /\ op \in CmpOps
    /\ \E kind \in CmpOps : r' = U32x4_bitxor(r, PackedCmp(kind, a, b))
    /\ op' = "U32x4.bitxor" /\ prev' = op
    /\ UNCHANGED <<a, b, c, d, flag, arg, orig, steps, val>>

\* flag := r.is_all_ones(), for r a comparison's mask
IsAllOnes ==
    /\ op \in CmpOps
    /\ flag' = U32x4_is_all_ones(r)
    /\ op' = "U32x4.is_all_ones" /\ prev' = op
    /\ UNCHANGED <<a, b, c, d, r, arg, orig, steps, val>>

NextCmp == Compare \/ StructEq \/ IsAllOnes

SpecCmp == InitTwo /\ [][NextCmp]_vars

NextMask == Compare \/ MaskNot \/ MaskXor

SpecMask == InitPair /\ [][NextMask]_vars

-----------------------------------------------------------------------------
(* The caller: concatenations *)

ConcatOps == {"F32x4.concat_xy_xy", "F32x4.concat_xy_zw", "F32x4.concat_zw_zw",
              "F32x4.concat_wz_yx", "I32x4.concat_xy_xy"}

\* r := a.concat_<..>(b)
Concat ==
    /\ op = "init"
    /\ \E kind \in ConcatOps :
          /\ r' = CASE kind = "F32x4.concat_xy_xy" -> F32x4_concat_xy_xy(a, b)
                    [] kind = "F32x4.concat_xy_zw" -> F32x4_concat_xy_zw(a, b)
                    [] kind = "F32x4.concat_zw_zw" -> F32x4_concat_zw_zw(a, b)
                    [] kind = "F32x4.concat_wz_yx" -> F32x4_concat_wz_yx(a, b)
                    [] kind = "I32x4.concat_xy_xy" -> I32x4_concat_xy_xy(a, b)
          /\ op' = kind
    /\ prev' = op
    /\ UNCHANGED <<a, b, c, d, flag, arg, orig, steps, val>>

NextConcat == Concat

SpecConcat == InitPair /\ [][NextConcat]_vars

-----------------------------------------------------------------------------
(* The caller: transpose *)

\* the largest stride between the rows of a matrix, and how many times the
\* caller transposes it
MaxRowStride == 4
MaxTransposes == 2

InitMatrix ==
    /\ \E s \in 0..(NumF32Vals - 1), t \in 0..MaxStride, u \in 0..MaxRowStride :
          /\ a = Vec(s, t)
          /\ b = Vec(s + u, t)
          /\ c = Vec(s + 2 * u, t)
          /\ d = Vec(s + 3 * u, t)
    /\ r = ZeroReg /\ flag = FALSE
    /\ op = "init" /\ prev = "" /\ arg = 0
    /\ orig = <<a, b, c, d>>
    /\ steps = 0
    /\ val = ZeroLane

\* F32x4::transpose_4x4(&mut a, &mut b, &mut c, &mut d)
Transpose ==
    /\ steps < MaxTransposes
    /\ LET rows == F32x4_transpose_4x4(a, b, c, d)
       IN /\ a' = rows[1]
          /\ b' = rows[2]
          /\ c' = rows[3]
          /\ d' = rows[4]
    /\ op' = "F32x4.transpose_4x4" /\ prev' = op
    /\ steps' = steps + 1
    /\ UNCHANGED <<r, flag, arg, orig, val>>

NextTranspose == Transpose

SpecTranspose == InitMatrix /\ [][NextTranspose]_vars

-----------------------------------------------------------------------------
(* The caller: cross product *)

\* the f32 values the x, y and z lanes of the operands are drawn from
CrossLanes ==
    << W(0, 0, 0, 0),        \* +0.0
       W(63, 128, 0, 0),     \*  1.0
       W(191, 128, 0, 0),    \* -1.0
       W(64, 0, 0, 0),       \*  2.0
       W(128, 0, 0, 0),      \* -0.0
       W(64, 64, 0, 0) >>    \*  3.0

\* how many of CrossLanes are used
NumCrossVals == 4

CrossVals == {CrossLanes[n] : n \in 1..NumCrossVals}

\* the w lanes are 0.0 or 1.0
CrossW == {CrossLanes[1], CrossLanes[2]}

InitCross ==
    /\ a \in {F32x4_new(x, y, z, w) : x \in CrossVals, y \in CrossVals,
                                      z \in CrossVals, w \in CrossW}
    /\ b \in {F32x4_new(x, y, z, w) : x \in CrossVals, y \in CrossVals,
                                      z \in CrossVals, w \in CrossW}
    /\ c = ZeroReg /\ d = ZeroReg
    /\ r = ZeroReg /\ flag = FALSE
    /\ op = "init" /\ prev = "" /\ arg = 0
    /\ orig = <<a, b, c, d>>
    /\ steps = 0
    /\ val = ZeroLane

\* r := a.cross(b)
Cross ==
    /\ op = "init"
    /\ ExactLanes(a) /\ ExactLanes(b)
    /\ r' = F32x4_cross(a, b)
    /\ op' = "F32x4.cross" /\ prev' = op
    /\ UNCHANGED <<a, b, c, d, flag, arg, orig, steps, val>>

NextCross == Cross

SpecCross == InitCross /\ [][NextCross]_vars

-----------------------------------------------------------------------------
(* The caller: byte shuffle *)

\* the U8x16 whose byte j is (s + j * t) mod 256, made from an I32x4
ByteVec(s, t) ==
    LET word(i) == << (s + (4 * i) * t) % 256, (s + (4 * i + 1) * t) % 256,
                      (s + (4 * i + 2) * t) % 256, (s + (4 * i + 3) * t) % 256 >>
    IN I32x4_as_u8x16(I32x4_new(word(0), word(1), word(2), word(3)))

\* how many byte vectors are shuffled
MaxSelf == 1

\* a holds 16 different non-zero bytes; the bytes of b run over every value
\* of a byte, equal or 17, 34, ... apart
InitShuffle ==
    /\ a \in {ByteVec(1 + 16 * k, 1) : k \in 0..MaxSelf}
    /\ b \in {ByteVec(s, 17 * t) : s \in 0..255, t \in 0..MaxStride}
    /\ c = ZeroReg /\ d = ZeroReg
    /\ r = ZeroReg /\ flag = FALSE
    /\ op = "init" /\ prev = "" /\ arg = 0
    /\ orig = <<a, b, c, d>>
    /\ steps = 0
    /\ val = ZeroLane

\* r := a.shuffle(b)
Shuffle ==
    /\ op = "init"
    /\ r' = U8x16_shuffle(a, b)
    /\ op' = "U8x16.shuffle" /\ prev' = op
    /\ UNCHANGED <<a, b, c, d, flag, arg, orig, steps, val>>

NextShuffle == Shuffle

SpecShuffle == InitShuffle /\ [][NextShuffle]_vars

-----------------------------------------------------------------------------
(* The caller: reductions, NOT and casts of one vector *)

\* a is built like the operands above, then one lane may be stored through
\* IndexMut
InitPoked ==
    /\ \E s \in 0..(NumF32Vals - 1), t \in 0..MaxStride, i \in Lanes,
          n \in 0..(NumF32Vals - 1) :
          a = Lane32_store(Vec(s, t), i, F32Val(n))
    /\ b = ZeroReg /\ c = ZeroReg /\ d = ZeroReg
    /\ r = ZeroReg /\ flag = FALSE
    /\ op = "init" /\ prev = "" /\ arg = 0
    /\ orig = <<a, b, c, d>>
    /\ steps = 0
    /\ val = ZeroLane

\* flag := a.is_all_ones()
AllOnes ==
    /\ op = "init"
    /\ flag' = U32x4_is_all_ones(a)
    /\ op' = "U32x4.is_all_ones" /\ prev' = op
    /\ UNCHANGED <<a, b, c, d, r, arg, orig, steps, val>>

\* flag := a.is_all_zeroes()
AllZeroes ==
    /\ op = "init"
    /\ flag' = U32x4_is_all_zeroes(a)
    /\ op' = "U32x4.is_all_zeroes" /\ prev' = op
    /\ UNCHANGED <<a, b, c, d, r, arg, orig, steps, val>>

\* r := !a
Not ==
    /\ op = "init"
    /\ r' = U32x4_not(a)
    /\ op' = "U32x4.not" /\ prev' = op
    /\ UNCHANGED <<a, b, c, d, flag, arg, orig, steps, val>>

\* r := !r, for r = !a
NotAgain ==
    /\ op = "U32x4.not" /\ prev = "init"
    /\ r' = U32x4_not(r)
    /\ op' = "U32x4.not" /\ prev' = op
    /\ UNCHANGED <<a, b, c, d, flag, arg, orig, steps, val>>

\* r := a.as_u8x16().as_i32x4(); flag := (r == a)
RoundTrip ==
    /\ op = "init"
    /\ r' = U8x16_as_i32x4(I32x4_as_u8x16(a))
    /\ flag' = I32x4_eq(r', a)
    /\ op' = "I32x4.as_u8x16.as_i32x4" /\ prev' = op
    /\ UNCHANGED <<a, b, c, d, arg, orig, steps, val>>

NextOne == AllOnes \/ AllZeroes \/ Not \/ NotAgain \/ RoundTrip

SpecOne == InitPoked /\ [][NextOne]_vars

-----------------------------------------------------------------------------
(* The caller: constructors *)

\* arg holds the four scalars the caller passes
InitArgs ==
    /\ \E s \in 0..(NumF32Vals - 1), t \in 0..MaxStride :
          arg = <<F32Val(s), F32Val(s + t), F32Val(s + 2 * t), F32Val(s + 3 * t)>>
    /\ a = ZeroReg /\ b = ZeroReg /\ c = ZeroReg /\ d = ZeroReg
    /\ r = ZeroReg /\ flag = FALSE
    /\ op = "init" /\ prev = ""
    /\ orig = <<a, b, c, d>>
    /\ steps = 0
    /\ val = ZeroLane

\* r := <ty>::new(arg[1], arg[2], arg[3], arg[4]), for a type that has new
New ==
    /\ op = "init"
    /\ \E ty \in Types :
          /\ "new" \in Api[ty]
          /\ r' = CASE ty = "F32x4" -> F32x4_new(arg[1], arg[2], arg[3], arg[4])
                    [] ty = "I32x4" -> I32x4_new(arg[1], arg[2], arg[3], arg[4])
                    [] ty = "U32x4" -> U32x4_new(arg[1], arg[2], arg[3], arg[4])
          /\ op' = ty \o ".new"
    /\ prev' = op
    /\ UNCHANGED <<a, b, c, d, flag, arg, orig, steps, val>>

\* r := <ty>::splat(arg[1]), for a type that has splat
Splat ==
    /\ op = "init"
    /\ \E ty \in Types :
          /\ "splat" \in Api[ty]
          /\ r' = CASE ty = "F32x4" -> F32x4_splat(arg[1])
                    [] ty = "I32x4" -> I32x4_splat(arg[1])
                    [] ty = "U32x4" -> U32x4_splat(arg[1])
          /\ op' = ty \o ".splat"
    /\ prev' = op
    /\ UNCHANGED <<a, b, c, d, flag, arg, orig, steps, val>>

NextNew == New \/ Splat

SpecNew == InitArgs /\ [][NextNew]_vars

-----------------------------------------------------------------------------
(* The caller: lane access *)

\* the largest index tried
MaxIndex == 5

IndexKinds == {ty \o ".index" : ty \in {t \in Types : "Index" \in Api[t]}}

IndexMutKinds == {ty \o ".index_mut" : ty \in {t \in Types : "IndexMut" \in Api[t]}}

\* val := a[k]; a panic if k is out of bounds
Index ==
    /\ op = "init"
    /\ \E kind \in IndexKinds, k \in 0..MaxIndex :
          /\ arg' = k
          /\ IF IndexInBounds(k)
                THEN val' = Lane32_index(a, k) /\ op' = kind /\ prev' = op
                ELSE val' = val /\ op' = "panic" /\ prev' = kind
    /\ UNCHANGED <<a, b, c, d, r, flag, orig, steps>>

\* a[k] = s; a panic if k is out of bounds
IndexMut ==
    /\ op = "init"
    /\ \E kind \in IndexMutKinds, k \in 0..MaxIndex, n \in 0..(NumF32Vals - 1) :
          /\ arg' = k
          /\ IF IndexInBounds(k)
                THEN /\ a' = Lane32_store(a, k, F32Val(n))
                     /\ val' = F32Val(n)
                     /\ op' = kind /\ prev' = op
                     /\ steps' = steps + 1
                ELSE /\ op' = "panic" /\ prev' = kind
                     /\ UNCHANGED <<a, val, steps>>
    /\ UNCHANGED <<b, c, d, r, flag, orig>>

NextIndex == Index \/ IndexMut

SpecIndex == InitOne /\ [][NextIndex]_vars

-----------------------------------------------------------------------------
(* The caller: I32x4 arithmetic and comparisons *)

I32ArithOps == {"I32x4.add", "I32x4.sub", "I32x4.mul", "I32x4.min"}

\* r := a + b, a - b, a * b or a.min(b)
I32Arith ==
    /\ op = "init"
    /\ \E kind \in I32ArithOps :
          /\ r' = CASE kind = "I32x4.add" -> I32x4_add(a, b)
                    [] kind = "I32x4.sub" -> I32x4_sub(a, b)
                    [] kind = "I32x4.mul" -> I32x4_mul(a, b)
                    [] kind = "I32x4.min" -> I32x4_min(a, b)
          /\ op' = kind
    /\ prev' = op
    /\ UNCHANGED <<a, b, c, d, flag, arg, orig, steps, val>>

NextI32 == I32Arith \/ Compare

SpecI32 == InitPair /\ [][NextI32]_vars

-----------------------------------------------------------------------------
(* The caller: conversion and rounding of one F32x4 *)

\* the f32 values the lanes are drawn from
ConvLanes ==
    << W(63, 0, 0, 0),       \*  0.5                    3F000000
       W(63, 192, 0, 0),     \*  1.5                    3FC00000
       W(64, 32, 0, 0),      \*  2.5                    40200000
       W(191, 192, 0, 0),    \* -1.5                    BFC00000
       W(63, 64, 0, 0),      \*  0.75                   3F400000
       W(191, 0, 0, 0),      \* -0.5                    BF000000
       W(63, 160, 0, 0),     \*  1.25                   3FA00000
       W(64, 96, 0, 0),      \*  3.5                    40600000
       W(192, 32, 0, 0),     \* -2.5                    C0200000
       W(63, 128, 0, 0),     \*  1.0                    3F800000
       W(0, 0, 0, 0),        \* +0.0                    00000000
       W(128, 0, 0, 0),      \* -0.0                    80000000
       W(74, 255, 255, 255), \*  8388607.5              4AFFFFFF
       W(78, 255, 255, 255), \*  2147483520.0           4EFFFFFF
       W(207, 0, 0, 0),      \* -2147483648.0           CF000000
       W(62, 255, 255, 255), \*  0.49999997             3EFFFFFF
       W(63, 0, 0, 1),       \*  0.50000006             3F000001
       W(0, 0, 0, 1),        \*  2^-149                 00000001
       W(191, 64, 0, 0),     \* -0.75                   BF400000
       W(192, 224, 0, 0),    \* -7.0                    C0E00000
       W(79, 0, 0, 0),       \*  2147483648.0           4F000000
       W(127, 192, 0, 0),    \*  NaN                    7FC00000
       W(255, 128, 0, 0),    \* -inf                    FF800000
       W(127, 128, 0, 1),    \*  NaN (signalling)       7F800001
       W(75, 0, 0, 1),       \*  8388609.0              4B000001
       W(128, 0, 0, 1) >>    \* -2^-149                 80000001

\* how many of ConvLanes are used
NumConvVals == 24

ConvVal(n) == ConvLanes[(n % NumConvVals) + 1]

InitConv ==
    /\ \E s \in 0..(NumConvVals - 1), t \in 0..MaxStride :
          a = F32x4_new(ConvVal(s), ConvVal(s + t), ConvVal(s + 2 * t),
                        ConvVal(s + 3 * t))
    /\ b = ZeroReg /\ c = ZeroReg /\ d = ZeroReg
    /\ r = ZeroReg /\ flag = FALSE
    /\ op = "init" /\ prev = "" /\ arg = 0
    /\ orig = <<a, b, c, d>>
    /\ steps = 0
    /\ val = ZeroLane

\* r := a.to_i32x4()
Convert ==
    /\ op = "init"
    /\ r' = F32x4_to_i32x4(a)
    /\ op' = "F32x4.to_i32x4" /\ prev' = op
    /\ UNCHANGED <<a, b, c, d, flag, arg, orig, steps, val>>

\* r := a.floor() or a.ceil()
Round ==
    /\ op = "init"
    /\ \E kind \in {"F32x4.floor", "F32x4.ceil"} :
          /\ r' = IF kind = "F32x4.floor" THEN F32x4_floor(a) ELSE F32x4_ceil(a)
          /\ op' = kind
    /\ prev' = op
    /\ UNCHANGED <<a, b, c, d, flag, arg, orig, steps, val>>

NextConv == Convert \/ Round

SpecConv == InitConv /\ [][NextConv]_vars

-----------------------------------------------------------------------------
(* The caller: the operations that work lane by lane *)

F32ArithOps == {"F32x4.add", "F32x4.sub", "F32x4.mul", "F32x4.neg"}

F32LaneOps == {"F32x4.min", "F32x4.max", "F32x4.abs", "F32x4.floor",
               "F32x4.ceil", "F32x4.to_i32x4"}

U32LaneOps == {"U32x4.not", "U32x4.bitxor"}

LaneOps == F32ArithOps \cup F32LaneOps \cup I32ArithOps \cup CmpOps \cup U32LaneOps

\* v.<kind>(w), or v.<kind>() for an operation of one vector
LaneOp(kind, v, w) ==
    CASE kind = "F32x4.add" -> F32x4_add(v, w)
      [] kind = "F32x4.sub" -> F32x4_sub(v, w)
      [] kind = "F32x4.mul" -> F32x4_mul(v, w)
      [] kind = "F32x4.neg" -> F32x4_neg(v)
      [] kind = "F32x4.min" -> F32x4_min(v, w)
      [] kind = "F32x4.max" -> F32x4_max(v, w)
      [] kind = "F32x4.abs" -> F32x4_abs(v)
      [] kind = "F32x4.floor" -> F32x4_floor(v)
      [] kind = "F32x4.ceil" -> F32x4_ceil(v)
      [] kind = "F32x4.to_i32x4" -> F32x4_to_i32x4(v)
      [] kind = "I32x4.add" -> I32x4_add(v, w)
      [] kind = "I32x4.sub" -> I32x4_sub(v, w)
      [] kind = "I32x4.mul" -> I32x4_mul(v, w)
      [] kind = "I32x4.min" -> I32x4_min(v, w)
      [] kind \in CmpOps -> PackedCmp(kind, v, w)
      [] kind = "U32x4.not" -> U32x4_not(v)
      [] kind = "U32x4.bitxor" -> U32x4_bitxor(v, w)

\* r := a.<kind>(b)
Lanewise ==
    /\ op = "init"
    /\ \E kind \in LaneOps :
          /\ kind \in F32ArithOps => (ExactLanes(a) /\ ExactLanes(b))
          /\ r' = LaneOp(kind, a, b)
          /\ op' = kind
    /\ prev' = op
    /\ UNCHANGED <<a, b, c, d, flag, arg, orig, steps, val>>

NextLanes == Lanewise

SpecLanes == InitPair /\ [][NextLanes]_vars

-----------------------------------------------------------------------------
(* The caller: every operation on four vectors *)

InitFour ==
    /\ \E s \in 0..(NumF32Vals - 1), t \in 0..MaxStride :
          /\ a = Vec(s, t)
          /\ b = Vec(s + 2, t)
          /\ c = Vec(s + 5, t)
          /\ d = Vec(s + 11, t)
    /\ r = ZeroReg /\ flag = FALSE
    /\ op = "init" /\ prev = "" /\ arg = 0
    /\ orig = <<a, b, c, d>>
    /\ steps = 0
    /\ val = ZeroLane

AssignOps == {"F32x4.add_assign", "F32x4.sub_assign", "F32x4.mul_assign"}

\* a += b, a -= b or a *= b
Assign ==
    /\ op = "init"
    /\ ExactLanes(a) /\ ExactLanes(b)
    /\ \E kind \in AssignOps :
          /\ a' = CASE kind = "F32x4.add_assign" -> F32x4_add_assign(a, b)
                    [] kind = "F32x4.sub_assign" -> F32x4_sub_assign(a, b)
                    [] kind = "F32x4.mul_assign" -> F32x4_mul_assign(a, b)
          /\ op' = kind
    /\ prev' = op
    /\ steps' = steps + 1
    /\ UNCHANGED <<b, c, d, r, flag, arg, orig, val>>

NextFour ==
    \/ F32Swizzle \/ I32Swizzle
    \/ Lanewise \/ StructEq
    \/ AllOnes \/ AllZeroes
    \/ Concat \/ Cross \/ Shuffle \/ RoundTrip
    \/ Index
    \/ Assign \/ Transpose

SpecFour == InitFour /\ [][NextFour]_vars

-----------------------------------------------------------------------------
(* The caller: absolute values *)

\* the top byte of lane 0 runs over 0..NumAbsBytes
NumAbsBytes == 255

\* a is one of the operand vectors, or a vector whose lanes' bytes go through
\* every value: in lane i the top byte is n + 64 i, the bytes below it are
\* n, the complement of n and 3 n + i (all modulo 256)
InitAbs ==
    /\ \/ a \in Vecs
       \/ \E n \in 0..NumAbsBytes :
             a = [j \in 0..15 |->
                     CASE j % 4 = 3 -> (n + 64 * (j \div 4)) % 256
                       [] j % 4 = 2 -> n % 256
                       [] j % 4 = 1 -> 255 - (n % 256)
                       [] OTHER     -> (3 * n + (j \div 4)) % 256]
    /\ b = ZeroReg /\ c = ZeroReg /\ d = ZeroReg
    /\ r = ZeroReg /\ flag = FALSE
    /\ op = "init" /\ prev = "" /\ arg = 0
    /\ orig = <<a, b, c, d>>
    /\ steps = 0
    /\ val = ZeroLane

\* r := a.abs()
Abs ==
    /\ op = "init"
    /\ r' = F32x4_abs(a)
    /\ op' = "F32x4.abs" /\ prev' = op
    /\ UNCHANGED <<a, b, c, d, flag, arg, orig, steps, val>>

NextAbs == Abs

SpecAbs == InitAbs /\ [][NextAbs]_vars

-----------------------------------------------------------------------------
(* The caller: the four F32x4 comparisons of one pair of vectors *)

\* arg := the masks of a.packed_gt(b), a.packed_lt(b), a.packed_eq(b) and
\* a.packed_le(b)
CompareAll ==
    /\ op = "init"
    /\ arg' = [gt |-> F32x4_packed_gt(a, b), lt |-> F32x4_packed_lt(a, b),
               eq |-> F32x4_packed_eq(a, b), le |-> F32x4_packed_le(a, b)]
    /\ op' = "F32x4.packed_all" /\ prev' = op
    /\ UNCHANGED <<a, b, c, d, r, flag, orig, steps, val>>

NextOrder == CompareAll

SpecOrder == InitTwo /\ [][NextOrder]_vars

-----------------------------------------------------------------------------
(* The caller: one swizzle after another *)

\* how many vectors are swizzled twice
NumComposeVecs == 2

\* a has four different lanes
InitCompose ==
    /\ \E s \in 0..(NumComposeVecs - 1) : a = Vec(s, 1)
    /\ b = ZeroReg /\ c = ZeroReg /\ d = ZeroReg
    /\ r = ZeroReg /\ flag = FALSE
    /\ op = "init" /\ prev = "" /\ arg = 0
    /\ orig = <<a, b, c, d>>
    /\ steps = 0
    /\ val = ZeroLane

\* r := r.<name k>() for one of the 256 F32x4 accessors, r being a.<name>()
F32SwizzleAgain ==
    /\ op = "F32x4.swizzle"
    /\ \E k \in 1..Len(F32x4Swizzles) :
          /\ r' = F32x4_swizzle(r, k)
          /\ arg' = <<arg, k>>
    /\ op' = "F32x4.swizzle.swizzle" /\ prev' = op
    /\ UNCHANGED <<a, b, c, d, flag, orig, steps, val>>

\* r := r.<name k>() for one of the 4 I32x4 accessors, r being a.<name>()
I32SwizzleAgain ==
    /\ op = "I32x4.swizzle"
    /\ \E k \in 1..Len(I32x4Swizzles) :
          /\ r' = I32x4_swizzle(r, k)
          /\ arg' = <<arg, k>>
    /\ op' = "I32x4.swizzle.swizzle" /\ prev' = op
    /\ UNCHANGED <<a, b, c, d, flag, orig, steps, val>>

NextCompose == F32Swizzle \/ F32SwizzleAgain \/ I32Swizzle \/ I32SwizzleAgain

SpecCompose == InitCompose /\ [][NextCompose]_vars

-----------------------------------------------------------------------------
(* Claims *)

Letters == <<"x", "y", "z", "w">>

\* x = lane 0, y = lane 1, z = lane 2, w = lane 3
LetterLane(l) == CHOOSE i \in Lanes : Letters[i + 1] = l

\* the immediate the naming convention gives a name
NameImm(n) == LetterLane(n[1]) + 4 * LetterLane(n[2])
              + 16 * LetterLane(n[3]) + 64 * LetterLane(n[4])

\* every one of the 256 names is an accessor, and each accessor's immediate
\* is the one its name spells
AllSwizzlesExposed ==
    /\ \A s \in [1..4 -> Lanes] :
          \E k \in 1..Len(F32x4Swizzles) :
              SwizzleName(k) = <<Letters[s[1] + 1], Letters[s[2] + 1],
                                 Letters[s[3] + 1], Letters[s[4] + 1]>>
    /\ \A k \in 1..Len(I32x4Swizzles) :
          I32x4Swizzles[k][2] = NameImm(I32x4Swizzles[k][1])

ResultFollows(n) == \A i \in Lanes : LaneOf(r, i) = LaneOf(a, LetterLane(n[i + 1]))

\* C1: each of the 256 lane combinations is an F32x4 accessor whose immediate
\* is s0 + 4*s1 + 16*s2 + 64*s3 and whose result has result[i] = input[s_i];
\* the four I32x4 swizzles obey the same law, bit patterns unchanged.
C1_SwizzleLaw ==
    /\ AllSwizzlesExposed
    /\ op = "F32x4.swizzle" =>
          /\ SwizzleImm(arg) = NameImm(SwizzleName(arg))
          /\ ResultFollows(SwizzleName(arg))
    /\ op = "I32x4.swizzle" => ResultFollows(I32x4Swizzles[arg][1])

DistinctLanes(v) == \A i, j \in Lanes : i # j => LaneOf(v, i) # LaneOf(v, j)

C1_Witness ==
    /\ op = "F32x4.swizzle"
    /\ SwizzleName(arg) = <<"w", "z", "y", "x">>
    /\ DistinctLanes(a)
    /\ LaneOf(r, 0) = LaneOf(a, 3)

-----------------------------------------------------------------------------
(* C2 - C5: comparisons *)

AllOnesLane == <<255, 255, 255, 255>>
AllZeroesLane == <<0, 0, 0, 0>>

\* C2: every lane of a comparison's result, and of the NOT or XOR of such
\* results, is all ones or all zeroes: a mask is never partially set.
C2_MasksAreWhole ==
    op \in CmpOps \cup {"U32x4.not", "U32x4.bitxor"} =>
        \A i \in Lanes : LaneOf(r, i) \in {AllOnesLane, AllZeroesLane}

C2_Witness ==
    /\ op = "U32x4.bitxor"
    /\ prev = "F32x4.packed_gt"
    /\ LaneOf(r, 0) = AllOnesLane
    /\ LaneOf(r, 1) = AllZeroesLane
    /\ \E i \in Lanes : IsNaN(LaneOf(a, i))

\* two f32 lanes compare equal: neither is NaN, and they hold the same bits
\* or are both zeroes (of either sign)
F32LanesEqual(s, t) ==
    /\ ~IsNaN(s) /\ ~IsNaN(t)
    /\ \/ s = t
       \/ {s, t} \subseteq {W(0, 0, 0, 0), W(128, 0, 0, 0)}

\* C3: a == b is true iff all four lanes compare equal (as floats for F32x4,
\* as 32-bit integers for I32x4 and U32x4), which is iff every lane of
\* a.packed_eq(b) is all ones.
C3_StructuralEquality ==
    /\ op = "F32x4.eq" =>
          /\ flag = (\A i \in Lanes : F32LanesEqual(LaneOf(a, i), LaneOf(b, i)))
          /\ flag = (\A i \in Lanes : LaneOf(F32x4_packed_eq(a, b), i) = AllOnesLane)
    /\ op = "I32x4.eq" =>
          /\ flag = (\A i \in Lanes : LaneOf(a, i) = LaneOf(b, i))
          /\ flag = (\A i \in Lanes : LaneOf(I32x4_packed_eq(a, b), i) = AllOnesLane)
    /\ op = "U32x4.eq" =>
          /\ flag = (\A i \in Lanes : LaneOf(a, i) = LaneOf(b, i))
          /\ flag = (\A i \in Lanes : LaneOf(U32x4_packed_eq(a, b), i) = AllOnesLane)

\* one lane differs, the last one, and the others are equal numbers
C3_Witness ==
    /\ op = "F32x4.eq"
    /\ ~flag
    /\ \A i \in 0..2 : LaneOf(a, i) = LaneOf(b, i) /\ ~IsNaN(LaneOf(a, i))
    /\ ~F32LanesEqual(LaneOf(a, 3), LaneOf(b, 3))

HasNaN(v) == \E i \in Lanes : IsNaN(LaneOf(v, i))

\* C4 as stated: v.packed_eq(v).is_all_ones() for every v.
C4_Reflexive_AllValues ==
    (op = "U32x4.is_all_ones" /\ prev = "F32x4.packed_eq" /\ a = b) => flag

\* C4, amended: v.packed_eq(v).is_all_ones() holds for every v none of whose
\* lanes is NaN (zeroes of either sign, infinities and denormals included),
\* and is false when some lane of v is NaN.
C4_Reflexive_ExceptNaN ==
    (op = "U32x4.is_all_ones" /\ prev = "F32x4.packed_eq" /\ a = b) =>
        (flag <=> ~HasNaN(a))

C4_Witness ==
    /\ op = "U32x4.is_all_ones" /\ prev = "F32x4.packed_eq" /\ a = b
    /\ flag
    /\ LaneOf(a, 0) = W(128, 0, 0, 0)
    /\ LaneOf(a, 1) = W(127, 128, 0, 0)

\* C5: v.packed_lt(w) = w.packed_gt(v) in every lane, and v.packed_le(w) is
\* the bitwise complement of v.packed_gt(w), for F32x4 and for I32x4.
C5_LtGtLe ==
    /\ op = "F32x4.packed_lt" => r = F32x4_packed_gt(b, a)
    /\ op = "F32x4.packed_le" =>
          \A j \in 0..15 : r[j] = 255 - F32x4_packed_gt(a, b)[j]
    /\ op = "I32x4.packed_le" =>
          \A j \in 0..15 : r[j] = 255 - I32x4_packed_gt(a, b)[j]

C5_Witness ==
    /\ op = "F32x4.packed_lt"
    /\ LaneOf(r, 0) = AllOnesLane
    /\ LaneOf(r, 1) = AllZeroesLane
    /\ F32x4_packed_gt(a, b) # F32x4_packed_gt(b, a)

-----------------------------------------------------------------------------
(* C6 - C8: concatenations and transpose *)

LanesAre(v, s0, s1, s2, s3) ==
    /\ LaneOf(v, 0) = s0 /\ LaneOf(v, 1) = s1
    /\ LaneOf(v, 2) = s2 /\ LaneOf(v, 3) = s3

\* C6: each concatenation's result is the lanes its name spells, the first
\* two from self and the last two from other.
C6_Concat ==
    /\ op \in {"F32x4.concat_xy_xy", "I32x4.concat_xy_xy"} =>
          LanesAre(r, LaneOf(a, 0), LaneOf(a, 1), LaneOf(b, 0), LaneOf(b, 1))
    /\ op = "F32x4.concat_xy_zw" =>
          LanesAre(r, LaneOf(a, 0), LaneOf(a, 1), LaneOf(b, 2), LaneOf(b, 3))
    /\ op = "F32x4.concat_zw_zw" =>
          LanesAre(r, LaneOf(a, 2), LaneOf(a, 3), LaneOf(b, 2), LaneOf(b, 3))
    /\ op = "F32x4.concat_wz_yx" =>
          LanesAre(r, LaneOf(a, 3), LaneOf(a, 2), LaneOf(b, 1), LaneOf(b, 0))

\* the eight lanes of a and b are eight different bit patterns
C6_Witness ==
    /\ op = "F32x4.concat_xy_zw"
    /\ Cardinality({LaneOf(a, i) : i \in Lanes} \cup {LaneOf(b, i) : i \in Lanes}) = 8
    /\ LaneOf(r, 1) = LaneOf(a, 1)
    /\ LaneOf(r, 2) = LaneOf(b, 2)

Rows == <<a, b, c, d>>

\* C7: one transpose_4x4 leaves in lane j of row i the old lane i of row j,
\* and returns nothing.
C7_Transpose ==
    (op = "F32x4.transpose_4x4" /\ steps = 1) =>
        /\ \A i, j \in Lanes : LaneOf(Rows[i + 1], j) = LaneOf(orig[j + 1], i)
        /\ r = ZeroReg /\ flag = FALSE

\* the sixteen lanes of the matrix are sixteen different bit patterns
C7_Witness ==
    /\ op = "F32x4.transpose_4x4" /\ steps = 1
    /\ Cardinality({LaneOf(orig[i + 1], j) : i \in Lanes, j \in Lanes}) = 16
    /\ LaneOf(b, 3) = LaneOf(orig[4], 1)

\* C8: two transpose_4x4 calls on the same four vectors give back the
\* original four vectors, lane for lane.
C8_TransposeTwice ==
    (op = "F32x4.transpose_4x4" /\ steps = 2) => Rows = orig

C8_Witness ==
    /\ op = "F32x4.transpose_4x4" /\ steps = 2
    /\ Cardinality({LaneOf(orig[i + 1], j) : i \in Lanes, j \in Lanes}) = 16
    /\ Rows = orig

-----------------------------------------------------------------------------
(* C9: cross product *)

\* the integer in lane i of v
IntLane(v, i) == F32ToInt(LaneOf(v, i))

UnitX == F32x4_new(CrossLanes[2], CrossLanes[1], CrossLanes[1], CrossLanes[1])
UnitY == F32x4_new(CrossLanes[1], CrossLanes[2], CrossLanes[1], CrossLanes[1])
UnitZ == F32x4_new(CrossLanes[1], CrossLanes[1], CrossLanes[2], CrossLanes[1])

\* lanes 0..2 of r hold the same numbers as lanes 0..2 of v
First3Are(v) == \A i \in 0..2 : IntLane(r, i) = IntLane(v, i)

\* C9: a.cross(b) is a.yzxw() * b.zxyw() - a.zxyw() * b.yzxw(): lane i is
\* a[p_i] * b[q_i] - a[q_i] * b[p_i] with p = (1, 2, 0, 3), q = (2, 0, 1, 3), so
\* the first three lanes are the right-handed cross product, and the unit
\* vectors give x * y = z, y * z = x, z * x = y.
C9_Cross ==
    op = "F32x4.cross" =>
        /\ LET p == <<1, 2, 0, 3>>
               q == <<2, 0, 1, 3>>
           IN \A i \in Lanes :
                 LaneOf(r, i) =
                    F32Sub(F32Mul(LaneOf(a, p[i + 1]), LaneOf(b, q[i + 1])),
                           F32Mul(LaneOf(a, q[i + 1]), LaneOf(b, p[i + 1])))
        /\ IntLane(r, 0) = IntLane(a, 1) * IntLane(b, 2) - IntLane(a, 2) * IntLane(b, 1)
        /\ IntLane(r, 1) = IntLane(a, 2) * IntLane(b, 0) - IntLane(a, 0) * IntLane(b, 2)
        /\ IntLane(r, 2) = IntLane(a, 0) * IntLane(b, 1) - IntLane(a, 1) * IntLane(b, 0)
        /\ (a = UnitX /\ b = UnitY) => First3Are(UnitZ)
        /\ (a = UnitY /\ b = UnitZ) => First3Are(UnitX)
        /\ (a = UnitZ /\ b = UnitX) => First3Are(UnitY)

C9_Witness ==
    /\ op = "F32x4.cross"
    /\ a = UnitX /\ b = UnitY
    /\ LanesAre(r, CrossLanes[1], CrossLanes[1], CrossLanes[2], CrossLanes[1])

-----------------------------------------------------------------------------
(* C10: byte shuffle *)

\* C10: output byte i of a.shuffle(b) is input byte (b[i] mod 16) when bit 7
\* of b[i] is clear, whatever bits 4..6 are, and 0 when bit 7 is set, whatever
\* the low bits are.
C10_Shuffle ==
    op = "U8x16.shuffle" =>
        \A i \in 0..15 :
            IF b[i] < 128 THEN r[i] = a[b[i] % 16] ELSE r[i] = 0

\* one index has bit 7 set and low bits that select a non-zero byte; another
\* has bit 7 clear and some of bits 4..6 set
C10_Witness ==
    /\ op = "U8x16.shuffle"
    /\ \E i \in 0..15 : b[i] >= 128 /\ b[i] % 16 # 0 /\ a[b[i] % 16] # 0 /\ r[i] = 0
    /\ \E i \in 0..15 : b[i] < 128 /\ b[i] >= 16 /\ r[i] = a[b[i] % 16] /\ r[i] # 0

-----------------------------------------------------------------------------
(* C11, C12, C18 *)

\* every bit of v is x
EveryBit(v, x) == \A j \in 0..15 : \A k \in 0..7 : Bit(v[j], k) = x

\* C11: is_all_ones is true exactly when every bit of every lane is 1 and
\* is_all_zeroes exactly when every bit is 0: true of splat(0xFFFFFFFF) and
\* of splat(0) respectively, both false of a vector that has set and clear
\* bits, and never both true.
C11_Reductions ==
    /\ (op = "U32x4.is_all_ones" /\ prev = "init") =>
          /\ flag = EveryBit(a, 1)
          /\ (a = U32x4_splat(U32Max)) => flag
          /\ (~EveryBit(a, 1) /\ ~EveryBit(a, 0)) => ~flag
          /\ flag => ~U32x4_is_all_zeroes(a)
    /\ op = "U32x4.is_all_zeroes" =>
          /\ flag = EveryBit(a, 0)
          /\ (a = U32x4_splat(ZeroLane)) => flag
          /\ (~EveryBit(a, 1) /\ ~EveryBit(a, 0)) => ~flag
          /\ flag => ~U32x4_is_all_ones(a)

\* is_all_zeroes has answered false for a vector whose only set bit is in its
\* last lane
C11_Witness ==
    /\ op = "U32x4.is_all_zeroes"
    /\ ~flag
    /\ \A j \in 0..11 : a[j] = 0
    /\ LaneOf(a, 3) = W(0, 0, 0, 1)

\* C12: v.as_u8x16().as_i32x4() == v for every I32x4 v: the round trip
\* leaves every byte of the register where it was.
C12_RoundTrip ==
    op = "I32x4.as_u8x16.as_i32x4" => (flag /\ r = a)

\* the round trip of a vector whose four bytes differ within a lane, and
\* whose lanes differ
C12_Witness ==
    /\ op = "I32x4.as_u8x16.as_i32x4"
    /\ LaneOf(a, 0) = W(63, 128, 0, 0)
    /\ LaneOf(a, 1) = W(127, 255, 255, 255)
    /\ flag

\* C18: !m is m ^ splat(!0): every bit of every lane is complemented;
\* !(!m) == m; !splat(0) is all ones and !splat(0xFFFFFFFF) all zeroes.
C18_Not ==
    /\ (op = "U32x4.not" /\ prev = "init") =>
          /\ r = U32x4_bitxor(a, U32x4_splat(U32Max))
          /\ \A j \in 0..15 : \A k \in 0..7 : Bit(r[j], k) = 1 - Bit(a[j], k)
          /\ (a = U32x4_splat(ZeroLane)) => U32x4_is_all_ones(r)
          /\ (a = U32x4_splat(U32Max)) => U32x4_is_all_zeroes(r)
    /\ (op = "U32x4.not" /\ prev = "U32x4.not") =>
          (r = a /\ U32x4_eq(r, a))

\* !(!m) has been taken of a vector with set and clear bits
C18_Witness ==
    /\ op = "U32x4.not" /\ prev = "U32x4.not"
    /\ LaneOf(a, 0) = W(63, 128, 0, 0)
    /\ LaneOf(a, 3) = W(255, 255, 255, 255)
    /\ r = a

-----------------------------------------------------------------------------
(* C13, C14 *)

\* s == t as the lane type of ty compares scalars: IEEE equality for f32,
\* equality of the bits for i32 and u32
ScalarEq(ty, s, t) ==
    IF ty = "F32x4"
      THEN ~IsNaN(s) /\ ~IsNaN(t) /\ F32Key(s) = F32Key(t)
      ELSE s = t

\* new(a, b, c, d), read by index, gives a, b, c, d at lanes 0, 1, 2, 3
NewReadsBack ==
    \A ty \in Types :
        op = ty \o ".new" =>
            \A i \in Lanes : \A j \in 1..4 : Lane32_index(r, i)[j] = arg[i + 1][j]

\* C13 as stated: each of the four types has new and splat; new(a, b, c, d)
\* reads back as a, b, c, d and splat(x)[i] == x for every lane and every x.
C13_EveryTypeConstructs ==
    /\ \A ty \in Types : {"new", "splat"} \subseteq Api[ty]
    /\ NewReadsBack
    /\ \A ty \in Types :
          op = ty \o ".splat" =>
              \A i \in Lanes : ScalarEq(ty, Lane32_index(r, i), arg[1])

\* C13, amended: F32x4, I32x4 and U32x4 have new, splat and Index while U8x16
\* has none of them; new(a, b, c, d) reads back as a, b, c, d, and every lane
\* of splat(x) holds the bits of x, so that splat(x)[i] == x unless x is an
\* f32 NaN.
C13_ThreeTypesConstruct ==
    /\ \A ty \in {"F32x4", "I32x4", "U32x4"} :
          {"new", "splat", "Index"} \subseteq Api[ty]
    /\ Api["U8x16"] \cap {"new", "splat", "Index"} = {}
    /\ NewReadsBack
    /\ \A ty \in Types :
          op = ty \o ".splat" =>
              \A i \in Lanes :
                 /\ \A j \in 1..4 : Lane32_index(r, i)[j] = arg[1][j]
                 /\ ScalarEq(ty, Lane32_index(r, i), arg[1])
                       = ~(ty = "F32x4" /\ IsNaN(arg[1]))

\* I32x4::new has been given four different scalars
C13_Witness ==
    /\ op = "I32x4.new"
    /\ arg = <<W(63, 128, 0, 0), W(64, 0, 0, 0), W(0, 0, 0, 0), W(191, 128, 0, 0)>>
    /\ LaneOf(r, 0) = W(63, 128, 0, 0)
    /\ LaneOf(r, 3) = W(191, 128, 0, 0)

\* a read of index k returns lane k and leaves the vector alone; a store to
\* index k changes lane k only; an index of 4 or more panics: no value is
\* returned and nothing is stored
IndexContract ==
    /\ op \in IndexKinds =>
          /\ arg \in Lanes
          /\ \A j \in 1..4 : val[j] = a[4 * arg + j - 1]
          /\ a = orig[1]
    /\ op \in IndexMutKinds =>
          /\ arg \in Lanes
          /\ \A j \in 0..15 :
                a[j] = IF j \div 4 = arg THEN val[(j % 4) + 1] ELSE orig[1][j]
    /\ op = "panic" =>
          /\ arg >= 4
          /\ prev \in IndexKinds \cup IndexMutKinds
          /\ a = orig[1] /\ val = ZeroLane
    /\ (op # "init" /\ arg >= 4) => op = "panic"

\* C14 as stated: the lanes of every type can be read and written by index
\* (0..3, or 0..15 for U8x16): a read of k returns lane k, a write to k
\* changes lane k only, and an index out of range traps.
C14_EveryTypeIndexed ==
    /\ \A ty \in Types : {"Index", "IndexMut"} \subseteq Api[ty]
    /\ IndexContract

\* C14, amended: F32x4 and I32x4 can be read and written by index 0..3,
\* U32x4 can only be read, and U8x16 has no index at all; a read of k returns
\* lane k, a write to k changes lane k only, and an index of 4 or more traps.
C14_IndexedWhereOffered ==
    /\ {ty \in Types : "Index" \in Api[ty]} = {"F32x4", "I32x4", "U32x4"}
    /\ {ty \in Types : "IndexMut" \in Api[ty]} = {"F32x4", "I32x4"}
    /\ IndexContract

\* lane 2 of an I32x4 has been overwritten with another value
C14_Witness ==
    /\ op = "I32x4.index_mut"
    /\ arg = 2
    /\ LaneOf(a, 2) = val
    /\ LaneOf(orig[1], 2) # val
    /\ a # orig[1]

\* a read with index 4 has panicked
C14_WitnessPanic ==
    /\ op = "panic" /\ prev = "U32x4.index" /\ arg = 4

-----------------------------------------------------------------------------
(* C15, C16 *)

I32Max == 127 * 16777216 + 16777215
I32Min == (0 - I32Max) - 1

\* z is x + y wrapped into the i32 range (2^32 is taken off or added when the
\* sum leaves the range), for i32 values x, y, z
WrappedSum(x, y, z) ==
    IF x > 0 /\ y > I32Max - x THEN z = (x + I32Min) + (y + I32Min)
    ELSE IF x < 0 /\ y < I32Min - x THEN z = (x - I32Min) + (y - I32Min)
    ELSE z = x + y

\* z is x - y wrapped into the i32 range
WrappedDifference(x, y, z) ==
    IF y < 0 /\ x > I32Max + y THEN z = (x + I32Min) - (y - I32Min)
    ELSE IF y > 0 /\ x < I32Min + y THEN z = (x - I32Min) - (y + I32Min)
    ELSE z = x - y

\* a 32-bit number as its two 16-bit halves <<low, high>>, and sums and
\* products of such numbers modulo 2^32
Halves16(s) == <<s[1] + 256 * s[2], s[3] + 256 * s[4]>>

AddHalves(x, y) ==
    LET lo == x[1] + y[1]
    IN <<lo % 65536, (x[2] + y[2] + lo \div 65536) % 65536>>

\* x * m for m < 2^15
TimesSmall(x, m) ==
    LET lo == x[1] * m
    IN <<lo % 65536, (x[2] * m + lo \div 65536) % 65536>>

\* x * t modulo 2^32, one byte of t at a time
LowProduct(x, t) ==
    AddHalves(TimesSmall(x, t[1]),
      TimesSmall(AddHalves(TimesSmall(x, t[2]),
        TimesSmall(AddHalves(TimesSmall(x, t[3]),
          TimesSmall(TimesSmall(x, t[4]), 256)), 256)), 256))

\* C15: I32x4 add and sub wrap around in two's complement in each lane and
\* mul keeps the low 32 bits of each lane's product, i32::MIN and i32::MAX
\* included.
C15_WrappingArithmetic ==
    \A i \in Lanes :
        LET x == I32Value(LaneOf(a, i))
            y == I32Value(LaneOf(b, i))
            z == I32Value(LaneOf(r, i))
        IN /\ op = "I32x4.add" => WrappedSum(x, y, z)
           /\ op = "I32x4.sub" => WrappedDifference(x, y, z)
           /\ op = "I32x4.mul" =>
                 /\ Halves16(LaneOf(r, i))
                       = LowProduct(Halves16(LaneOf(a, i)), LaneOf(b, i))
                 /\ (x \in -46340..46340 /\ y \in -46340..46340) => z = x * y
                 /\ (x = I32Min /\ y = -1) => z = I32Min
                 /\ (x = I32Max /\ y = I32Max) => z = 1

\* i32::MAX + 1 has wrapped to i32::MIN in lane 0
C15_Witness ==
    /\ op = "I32x4.add"
    /\ I32Value(LaneOf(a, 0)) = I32Max
    /\ I32Value(LaneOf(b, 0)) = 1
    /\ I32Value(LaneOf(r, 0)) = I32Min

\* i32::MIN * -1 has wrapped to i32::MIN in lane 0
C15_WitnessMul ==
    /\ op = "I32x4.mul"
    /\ I32Value(LaneOf(a, 0)) = I32Min
    /\ I32Value(LaneOf(b, 0)) = -1
    /\ I32Value(LaneOf(r, 0)) = I32Min

\* s < t as i32: a negative number is below a non-negative one, and two
\* numbers of one sign are ordered as their bits are
SignedLess(s, t) ==
    IF (s[4] >= 128) # (t[4] >= 128)
      THEN s[4] >= 128
      ELSE \E k \in 1..4 : s[k] < t[k] /\ \A m \in (k + 1)..4 : s[m] = t[m]

\* C16: the I32x4 comparisons are signed: lane i of min(a, b) is the smaller
\* of a[i] and b[i], lane i of packed_gt is all ones exactly if a[i] > b[i]
\* and lane i of packed_le exactly if a[i] <= b[i].
C16_SignedComparisons ==
    \A i \in Lanes :
        LET s == LaneOf(a, i)
            t == LaneOf(b, i)
            z == LaneOf(r, i)
        IN /\ op = "I32x4.min" => z = IF SignedLess(t, s) THEN t ELSE s
           /\ op = "I32x4.packed_gt" =>
                 z = IF SignedLess(t, s) THEN U32Max ELSE ZeroLane
           /\ op = "I32x4.packed_le" =>
                 z = IF SignedLess(t, s) THEN ZeroLane ELSE U32Max

\* min has chosen -1 over 1, which an unsigned comparison would not
C16_Witness ==
    /\ op = "I32x4.min"
    /\ LaneOf(a, 0) = W(255, 255, 255, 255)
    /\ LaneOf(b, 0) = W(0, 0, 0, 1)
    /\ LaneOf(r, 0) = W(255, 255, 255, 255)

-----------------------------------------------------------------------------
(* C17 *)

\* the f32 is -2^31, the one value of exponent 31 that an i32 holds
IsMinusTwoTo31(s) == s = W(207, 0, 0, 0)

\* the f32 lies in the range of i32
InI32Range(s) == F32Exp(s) <= 157 \/ IsMinusTwoTo31(s)

\* the integer n is a nearest integer to the f32 s, |s| < 2^31, and is even
\* if s is half way between two integers: with |s| = sig / 2^shift and
\* m = |n|, |sig - m * 2^shift| is at most 2^(shift - 1)
NearestEven(s, n) ==
    /\ n # I32Min
    /\ (F32Sign(s) = 1) => n <= 0
    /\ (F32Sign(s) = 0) => n >= 0
    /\ LET m == IF n < 0 THEN 0 - n ELSE n
           sig == F32Sig(s)
           shift == F32Shift(s)
       IN IF shift <= 0 THEN m = sig * Pow2(0 - shift)
          ELSE IF shift > 24 THEN m = 0
          ELSE /\ m <= Pow2(24 - shift)
               /\ LET dist == IF sig >= m * Pow2(shift)
                                THEN sig - m * Pow2(shift)
                                ELSE m * Pow2(shift) - sig
                  IN /\ dist <= Pow2(shift - 1)
                     /\ dist = Pow2(shift - 1) => m % 2 = 0

-----------------------------------------------------------------------------
(* C19 *)

\* the scalars put into the other lanes
OtherLaneValues == {W(63, 128, 0, 0), W(192, 0, 0, 0)}

\* C19: for add, sub, mul, neg, min, max, abs, floor, ceil, to_i32x4 and the
\* packed comparisons of F32x4, add, sub, mul, min and the packed comparisons
\* of I32x4, and packed_eq, NOT and XOR of U32x4, lane i of the result is a
\* function of lane i of the operands: it is what the operation gives at
\* lane 0 for operands that hold those lanes everywhere, and it stays the
\* same when another lane of an operand is changed.
C19_LaneOrderKept ==
    op \in LaneOps =>
        \A i \in Lanes :
            /\ LaneOf(r, i)
                  = LaneOf(LaneOp(op, mm_set1_epi32(LaneOf(a, i)),
                                      mm_set1_epi32(LaneOf(b, i))), 0)
            /\ \A k \in Lanes \ {i} : \A x \in OtherLaneValues :
                  /\ LaneOf(LaneOp(op, Lane32_store(a, k, x), b), i) = LaneOf(r, i)
                  /\ LaneOf(LaneOp(op, a, Lane32_store(b, k, x)), i) = LaneOf(r, i)

\* an I32x4 sum whose lane 0 has a carry out, which lane 1 has not received
C19_Witness ==
    /\ op = "I32x4.add"
    /\ LaneOf(a, 0) = W(255, 255, 255, 255)
    /\ LaneOf(b, 0) = W(0, 0, 0, 1)
    /\ LaneOf(a, 1) = W(0, 0, 0, 1)
    /\ LaneOf(b, 1) = W(127, 255, 255, 255)
    /\ LaneOf(r, 0) = ZeroLane
    /\ LaneOf(r, 1) = W(128, 0, 0, 0)

-----------------------------------------------------------------------------
(* C20 *)

-----------------------------------------------------------------------------
(* C21: abs *)

\* bit 31 of a lane is bit 7 of its byte 3
IsSignBit(j, k) == j % 4 = 3 /\ k = 7

\* C21: the mask F32x4::abs builds is 0x7FFFFFFF in every lane, and lane i
\* of the result is lane i of the input with the sign bit cleared and every
\* other bit as it was, whatever the lane's 32 bits are.
C21_AbsClearsSignBit ==
    op = "F32x4.abs" =>
        /\ \A i \in Lanes : LaneOf(F32x4_abs_tmp, i) = W(127, 255, 255, 255)
        /\ \A j \in 0..15, k \in 0..7 :
              Bit(r[j], k) = IF IsSignBit(j, k) THEN 0 ELSE Bit(a[j], k)
        /\ \A i \in Lanes :
              LaneOf(r, i) = <<a[4 * i], a[4 * i + 1], a[4 * i + 2],
                               a[4 * i + 3] % 128>>

\* -NaN with every bit set becomes 0x7FFFFFFF, next to a lane that had no
\* sign bit and is kept
C21_Witness ==
    /\ op = "F32x4.abs"
    /\ \E i, k \in Lanes :
          /\ LaneOf(a, i) = W(255, 255, 255, 255)
          /\ LaneOf(r, i) = W(127, 255, 255, 255)
          /\ a[4 * k + 3] < 128
          /\ LaneOf(r, k) = LaneOf(a, k)

-----------------------------------------------------------------------------
(* C22: comparisons of NaN *)

\* the 32 bits are a NaN: above the infinity's 0x7F800000 once the sign bit
\* is dropped
NaNBits(s) ==
    /\ s[4] % 128 = 127
    /\ s[3] >= 128
    /\ s[3] > 128 \/ s[2] > 0 \/ s[1] > 0

\* lane i of either operand is NaN
NaNLane(i) == NaNBits(LaneOf(a, i)) \/ NaNBits(LaneOf(b, i))

\* x | y on lanes
OrLanes(s, t) == [n \in 1..4 |-> s[n] + t[n] - And8(s[n], t[n])]

\* C22: where lane i of either operand is NaN, packed_gt, packed_lt and
\* packed_eq report lane i as all zeroes and packed_le reports it as all
\* ones; so lane i of packed_le is lane i of (packed_lt OR packed_eq) exactly
\* on the lanes where neither operand is NaN.
C22_NaNLanes ==
    op = "F32x4.packed_all" =>
        \A i \in Lanes :
            /\ NaNLane(i) =>
                  /\ LaneOf(arg.gt, i) = AllZeroesLane
                  /\ LaneOf(arg.lt, i) = AllZeroesLane
                  /\ LaneOf(arg.eq, i) = AllZeroesLane
                  /\ LaneOf(arg.le, i) = AllOnesLane
            /\ (LaneOf(arg.le, i) = OrLanes(LaneOf(arg.lt, i), LaneOf(arg.eq, i)))
                  <=> ~NaNLane(i)

\* lane 0 has a NaN on one side only and the two ways of asking "<=" differ
\* there; lane 1 holds two numbers, the first below the second, and they agree
C22_Witness ==
    /\ op = "F32x4.packed_all"
    /\ NaNBits(LaneOf(a, 0)) /\ ~NaNBits(LaneOf(b, 0))
    /\ LaneOf(arg.le, 0) = AllOnesLane
    /\ OrLanes(LaneOf(arg.lt, 0), LaneOf(arg.eq, 0)) = AllZeroesLane
    /\ ~NaNLane(1)
    /\ LaneOf(arg.lt, 1) = AllOnesLane
    /\ LaneOf(arg.le, 1) = AllOnesLane

-----------------------------------------------------------------------------
(* C23: swizzles compose *)

\* the name whose letter i is letter q_i of p: the index map i -> p[q_i]
Composite(p, q) == [i \in 1..4 |-> p[LetterLane(q[i]) + 1]]

SelfInverse == {<<"w", "z", "y", "x">>, <<"z", "y", "x", "w">>,
                <<"z", "w", "x", "y">>}

\* C23: after v.p().q() lane i of the result is lane p[q_i] of v, and the
\* result is what the F32x4 accessor named by that index map gives, which
\* exists; xyzw returns v, and wzyx, zyxw and zwxy applied twice return v
\* (zyxw and zwxy of I32x4 as well).
C23_SwizzlesCompose ==
    /\ op = "F32x4.swizzle.swizzle" =>
          LET p  == SwizzleName(arg[1])
              q  == SwizzleName(arg[2])
              pq == Composite(p, q)
              k  == NameImm(pq) + 1
          IN /\ ResultFollows(pq)
             /\ k \in 1..Len(F32x4Swizzles)
             /\ SwizzleName(k) = pq
             /\ r = F32x4_swizzle(a, k)
             /\ (p = q /\ p \in SelfInverse) => r = a
    /\ (op = "F32x4.swizzle" /\ SwizzleName(arg) = <<"x", "y", "z", "w">>)
          => r = a
    /\ op = "I32x4.swizzle.swizzle" =>
          LET p == I32x4Swizzles[arg[1]][1]
              q == I32x4Swizzles[arg[2]][1]
          IN /\ ResultFollows(Composite(p, q))
             /\ (p = q /\ p \in SelfInverse) => r = a

\* yzwx then wzyx is xwzy (and not zyxw, which is wzyx then yzwx)
C23_Witness ==
    /\ op = "F32x4.swizzle.swizzle"
    /\ SwizzleName(arg[1]) = <<"y", "z", "w", "x">>
    /\ SwizzleName(arg[2]) = <<"w", "z", "y", "x">>
    /\ DistinctLanes(a)
    /\ r = F32x4_swizzle(a, SwizzleNamed(<<"x", "w", "z", "y">>))
    /\ LaneOf(r, 1) = LaneOf(a, 3)

\* wzyx twice
C23_WitnessTwice ==
    /\ op = "F32x4.swizzle.swizzle"
    /\ SwizzleName(arg[1]) = <<"w", "z", "y", "x">>
    /\ arg[2] = arg[1]
    /\ DistinctLanes(a)
    /\ prev = "F32x4.swizzle"
    /\ r = a

====
